---------------------------- MODULE Spec2Model ----------------------------
(***************************************************************************)
(* A model of yogaboard's virtual input devices and gesture engine.        *)
(*                                                                         *)
(*   - UInputKeyboard  (input_device/uinput_keyboard.py): a queue of key   *)
(*     events, one worker thread that creates the device and drains the    *)
(*     queue, producers that append under the queue lock.                  *)
(*   - UInputTouchpad  (input_device/uinput_touchpad.py): the same shape   *)
(*     for multi-touch events, with the device file descriptor it owns.    *)
(*   - ModifierState   (input/modifier_state.py): modifier -> owner map.   *)
(*   - TouchpadHandler (input/touchpad_handler.py): the gesture engine.    *)
(*                                                                         *)
(* Floats are modelled as exact integers: coordinates in 1/100 of a unit,  *)
(* times in 1/100 of a second.  Variables named gh_... are history         *)
(* variables the program does not hold: they record what happened, so that *)
(* the properties can speak about it.                                      *)
(***************************************************************************)
EXTENDS Integers, Sequences, FiniteSets

\* ------------------------------------------------------------------------
\* Bounds of the model
\* ------------------------------------------------------------------------

\* how many key events the producers enqueue on the keyboard in one run
MaxKbEnq == 3

\* how many producer calls one run makes on the touchpad device
MaxTpCalls == 2

\* how many low-level writes fail (raise) in one run of a device
MaxWriteFails == 1

\* how many modifier press/release calls one run makes
MaxModCalls == 4

\* the largest finger count set_finger_count is checked for
MaxFingerCount == 10

\* how many handler invocations the gesture engine receives in one run
MaxEngEvents == 6

\* how far the clock advances in one run of the gesture engine (1/100 s)
MaxEngClock == 50

\* how many handler invocations the keyboard touch layer receives in one run
MaxThEvents == 4

VARIABLES
    \* ---- UInputKeyboard -------------------------------------------------
    kb_queue,       \* self.event_queue (deque of KeyEvent)
    kb_lock,        \* self.queue_lock: "free" or the holder
    kb_running,     \* self.running
    kb_device,      \* self.device: "None" or "dev"
    kb_pc,          \* where the worker thread is in _event_loop
    kb_cur,         \* the worker's local `event`: <<>> for None, <<e>>
    gh_kb_written,  \* history: the low-level events written to the device
    gh_kb_enq,      \* history: the events appended, in append order
    gh_kb_taken,    \* history: the events popped, in pop order
    gh_kb_regfail,  \* history: device creation failed
    gh_kb_destroys, \* history: how often device.destroy() ran
    gh_kb_fails,    \* history: how many writes failed
    gh_kb_stop_at,  \* history: how many events had been appended when
                    \* cleanup() was called, -1 before it is
    \* ---- UInputTouchpad -------------------------------------------------
    tp_queue,        \* self.event_queue (deque of TouchEvent)
    tp_lock,         \* self.queue_lock: "free" or the holder
    tp_running,      \* self.running
    tp_fd,           \* self.fd: "None" or "fd"
    tp_current_slot, \* self._current_slot
    tp_active_slots, \* self._active_slots
    tp_pc,           \* where the worker thread is in _event_loop
    tp_cur,          \* the worker's local `event`: <<>> for None, <<e>>
    gh_tp_written,   \* history: the low-level events written to the device
    gh_tp_enq,       \* history: the events appended, in append order
    gh_tp_taken,     \* history: the events popped, in pop order
    gh_tp_calls,     \* history: how many producer calls were made
    gh_tp_regfail,   \* history: device creation failed
    gh_tp_opens,     \* history: how often os.open returned a descriptor
    gh_tp_closes,    \* history: how often os.close ran on the descriptor
    gh_tp_fails,     \* history: how many writes failed
    gh_tp_done,      \* history: per processed event, the slot pointer and the
                     \* active slots it found and whether a write raised
    gh_tp_api,       \* history: the producer calls made, in order
    gh_tp_stop_at,   \* history: how many events had been appended when
                     \* cleanup() was called, -1 before it is
    \* ---- ModifierState --------------------------------------------------
    active_modifiers,  \* self._active_modifiers: modifier -> touch_id
    gh_mod_calls,      \* history: the press/release calls made, in order
    \* ---- TouchHandler ---------------------------------------------------
    th_active_touches,     \* self.active_touches: sequence_key -> (Key, touch_id)
    th_next_touch_id,      \* self._next_touch_id
    th_pressed_modifiers,  \* self._pressed_modifiers
    gh_th_events,          \* history: how many handler invocations were made
    gh_th_last,            \* history: the last handler invocation
    \* ---- TouchpadHandler ------------------------------------------------
    eng_pointer_sensitivity,    \* self.pointer_sensitivity (1/100)
    eng_scroll_sensitivity,     \* self.scroll_sensitivity (1/100)
    eng_tap_max_duration,       \* self.tap_max_duration (1/100 s)
    eng_tap_max_movement,       \* self.tap_max_movement (1/100 unit)
    eng_tap_drag_enabled,       \* self.tap_drag_enabled
    eng_tap_drag_window,        \* self.tap_drag_window (1/100 s)
    eng_active_touches,         \* self.active_touches: sequence -> TouchState
    eng_max_fingers_in_gesture, \* self._max_fingers_in_gesture
    eng_any_finger_moved,       \* self._any_finger_moved
    eng_first_touch_time,       \* self.first_touch_time (1/100 s)
    eng_last_tap_time,          \* self._last_tap_time (1/100 s)
    eng_tap_drag_active,        \* self._tap_drag_active
    eng_pointer_accumulator,    \* self.pointer_accumulator_x, _y (1/10000)
    eng_scroll_accumulator,     \* self.scroll_accumulator_x, _y (1/10000)
    eng_now,                    \* what time.monotonic() returns (1/100 s)
    gh_eng_events,       \* history: how many handler invocations were made
    gh_eng_last,         \* history: the last handler invocation
    gh_sess,             \* history of the session: start, peak count, farthest
                         \* movement, move_pointer calls made and their sum,
                         \* whether a contact of it was cancelled
    gh_last_single_tap,  \* history: <<when the last one-finger tap completed>>
    gh_drag_held,        \* history: the engine pressed left and has not released it
    gh_drag_spent        \* history: how many sessions entered tap-drag since the
                         \* last one-finger tap completed

kbVars == <<kb_queue, kb_lock, kb_running, kb_device, kb_pc, kb_cur,
            gh_kb_written, gh_kb_enq, gh_kb_taken, gh_kb_regfail,
            gh_kb_destroys, gh_kb_fails, gh_kb_stop_at>>
tpVars == <<tp_queue, tp_lock, tp_running, tp_fd, tp_current_slot,
            tp_active_slots, tp_pc, tp_cur, gh_tp_written, gh_tp_enq,
            gh_tp_taken, gh_tp_calls, gh_tp_regfail, gh_tp_opens,
            gh_tp_closes, gh_tp_fails, gh_tp_done, gh_tp_api, gh_tp_stop_at>>
modVars == <<active_modifiers, gh_mod_calls>>
thVars == <<th_active_touches, th_next_touch_id, th_pressed_modifiers,
            gh_th_events, gh_th_last>>
engVars == <<eng_pointer_sensitivity, eng_scroll_sensitivity,
             eng_tap_max_duration, eng_tap_max_movement, eng_tap_drag_enabled,
             eng_tap_drag_window, eng_active_touches,
             eng_max_fingers_in_gesture, eng_any_finger_moved,
             eng_first_touch_time, eng_last_tap_time, eng_tap_drag_active,
             eng_pointer_accumulator, eng_scroll_accumulator, eng_now,
             gh_eng_events, gh_eng_last, gh_sess, gh_last_single_tap,
             gh_drag_held, gh_drag_spent>>
vars == <<kbVars, tpVars, modVars, thVars, engVars>>

\* ------------------------------------------------------------------------
\* Helpers
\* ------------------------------------------------------------------------

\* the first n elements of s
Take(s, n) == SubSeq(s, 1, n)

\* Python's None
None == "None"

\* ========================================================================
\* UInputKeyboard
\* ========================================================================

\* a few of SUPPORTED_KEYS
KeyCodes == {"KEY_A", "KEY_LEFTSHIFT"}

\* KeyEvent(key_code, action)
KeyEvent(k, a) == [key_code |-> k, action |-> a]

\* send_key: action = "press" if pressed else "release"
KeyAction(pressed) == IF pressed THEN "press" ELSE "release"

\* one low-level write to the keyboard device; `src` is the position in
\* gh_kb_taken of the queued event the worker was processing (history)
KbWrite(type, code, value) ==
    [type |-> type, code |-> code, value |-> value, src |-> Len(gh_kb_taken)]

\* __init__: empty queue, running, no device, worker thread started
KbInit ==
    /\ kb_queue = <<>>
    /\ kb_lock = "free"
    /\ kb_running = TRUE
    /\ kb_device = None
    /\ kb_pc = "create"
    /\ kb_cur = <<>>
    /\ gh_kb_written = <<>>
    /\ gh_kb_enq = <<>>
    /\ gh_kb_taken = <<>>
    /\ gh_kb_regfail = FALSE
    /\ gh_kb_destroys = 0
    /\ gh_kb_fails = 0
    /\ gh_kb_stop_at = -1

\* _event_loop, the except branch: print, self.running = False, return
KbCreateFailed ==
    /\ kb_running' = FALSE
    /\ kb_pc' = "exited"
    /\ gh_kb_regfail' = TRUE
    /\ UNCHANGED kb_device

\* _event_loop, the try block: uinput.Device(...) either returns the device
\* or raises (permissions, ioctl failure)
KbCreate ==
    /\ kb_pc = "create"
    /\ \/ /\ kb_device' = "dev"
          /\ kb_pc' = "delay"
          /\ UNCHANGED <<kb_running, gh_kb_regfail>>
       \/ KbCreateFailed
    /\ UNCHANGED <<kb_queue, kb_lock, kb_cur, gh_kb_written, gh_kb_enq,
                   gh_kb_taken, gh_kb_destroys, gh_kb_fails>>

\* time.sleep(0.1) after the device was created
KbDelay ==
    /\ kb_pc = "delay"
    /\ kb_pc' = "check"
    /\ UNCHANGED <<kb_queue, kb_lock, kb_running, kb_device, kb_cur,
                   gh_kb_written, gh_kb_enq, gh_kb_taken, gh_kb_regfail,
                   gh_kb_destroys, gh_kb_fails>>

\* `while self.running:` and, when it holds, entering `with self.queue_lock:`
KbCheck ==
    /\ kb_pc = "check"
    /\ IF kb_running
         THEN /\ kb_lock = "free"
              /\ kb_lock' = "worker"
              /\ kb_pc' = "locked"
         ELSE /\ kb_pc' = "destroy"
              /\ UNCHANGED kb_lock
    /\ UNCHANGED <<kb_queue, kb_running, kb_device, kb_cur, gh_kb_written,
                   gh_kb_enq, gh_kb_taken, gh_kb_regfail, gh_kb_destroys, gh_kb_fails>>

\* self.event_queue.popleft(): the element removed and the queue left
KbPopLeftMutant(q) == <<q[Len(q)], Take(q, Len(q) - 1)>>
KbPopLeft(q) == <<Head(q), Tail(q)>>

\* inside the lock: `if self.event_queue: event = self.event_queue.popleft()`
\* and leaving the `with` block
KbPopMutant ==
    /\ kb_pc = "locked"
    /\ IF kb_queue # <<>>
         THEN /\ kb_pc' = "send"
              /\ kb_cur' = <<KbPopLeft(kb_queue)[1]>>
              /\ kb_queue' = KbPopLeft(kb_queue)[2]
              /\ gh_kb_taken' = Append(gh_kb_taken, KbPopLeft(kb_queue)[1])
         ELSE /\ kb_pc' = "sleep"
              /\ kb_cur' = <<>>
              /\ UNCHANGED <<kb_queue, gh_kb_taken>>
    /\ UNCHANGED <<kb_lock, kb_running, kb_device, gh_kb_written, gh_kb_enq,
                   gh_kb_regfail, gh_kb_destroys, gh_kb_fails>>
KbPop ==
    /\ kb_pc = "locked"
    /\ IF kb_queue # <<>>
         THEN /\ kb_pc' = "send"
              /\ kb_cur' = <<KbPopLeft(kb_queue)[1]>>
              /\ kb_queue' = KbPopLeft(kb_queue)[2]
              /\ gh_kb_taken' = Append(gh_kb_taken, KbPopLeft(kb_queue)[1])
         ELSE /\ kb_pc' = "sleep"
              /\ kb_cur' = <<>>
              /\ UNCHANGED <<kb_queue, gh_kb_taken>>
    /\ kb_lock' = "free"
    /\ UNCHANGED <<kb_running, kb_device, gh_kb_written, gh_kb_enq,
                   gh_kb_regfail, gh_kb_destroys, gh_kb_fails>>

\* _send_key_event: the writes it attempts, in order: device.emit(key_code,
\* 1 or 0), then device.syn()
KbSendWritesMutant(event) ==
    <<KbWrite("EV_KEY", event.key_code, 1),
      KbWrite("EV_KEY", event.key_code, 0),
      KbWrite("EV_SYN", "SYN_REPORT", 0)>>
KbSendWrites(event) ==
    <<KbWrite("EV_KEY", event.key_code,
              IF event.action = "press" THEN 1 ELSE 0),
      KbWrite("EV_SYN", "SYN_REPORT", 0)>>

\* `try: self._send_key_event(event) except Exception: print(...)`: a write
\* that raises ends _send_key_event there, so some prefix of the writes
\* reaches the device; the exception is caught and the loop goes on.  The
\* local `event` is dead after the call (the loop resets it to None).
KbSendMutant ==
    /\ kb_pc = "send"
    /\ IF kb_device = None
         THEN /\ kb_pc' = "check"
              /\ UNCHANGED <<gh_kb_written, gh_kb_fails>>
         ELSE \E n \in 0..Len(KbSendWrites(kb_cur[1])) :
                /\ n < Len(KbSendWrites(kb_cur[1])) => gh_kb_fails < MaxWriteFails
                /\ kb_pc' = IF n < Len(KbSendWrites(kb_cur[1]))
                              THEN "exited" ELSE "check"
                /\ gh_kb_fails' = IF n < Len(KbSendWrites(kb_cur[1]))
                                   THEN gh_kb_fails + 1 ELSE gh_kb_fails
                /\ gh_kb_written' =
                       gh_kb_written \o Take(KbSendWrites(kb_cur[1]), n)
    /\ kb_cur' = <<>>
    /\ UNCHANGED <<kb_queue, kb_lock, kb_running, kb_device,
                   gh_kb_enq, gh_kb_taken, gh_kb_regfail, gh_kb_destroys>>
KbSend ==
    /\ kb_pc = "send"
    /\ kb_pc' = "check"
    /\ IF kb_device = None
         THEN UNCHANGED <<gh_kb_written, gh_kb_fails>>
         ELSE \E n \in 0..Len(KbSendWrites(kb_cur[1])) :
                /\ n < Len(KbSendWrites(kb_cur[1])) => gh_kb_fails < MaxWriteFails
                /\ gh_kb_fails' = IF n < Len(KbSendWrites(kb_cur[1]))
                                   THEN gh_kb_fails + 1 ELSE gh_kb_fails
                /\ gh_kb_written' =
                       gh_kb_written \o Take(KbSendWrites(kb_cur[1]), n)
    /\ kb_cur' = <<>>
    /\ UNCHANGED <<kb_queue, kb_lock, kb_running, kb_device,
                   gh_kb_enq, gh_kb_taken, gh_kb_regfail, gh_kb_destroys>>

\* time.sleep(0.001) when the queue was empty
KbSleep ==
    /\ kb_pc = "sleep"
    /\ kb_pc' = "check"
    /\ UNCHANGED <<kb_queue, kb_lock, kb_running, kb_device, kb_cur,
                   gh_kb_written, gh_kb_enq, gh_kb_taken, gh_kb_regfail,
                   gh_kb_destroys, gh_kb_fails>>

\* after the loop: `if self.device: self.device.destroy()`; the thread ends
KbDestroy ==
    /\ kb_pc = "destroy"
    /\ gh_kb_destroys' = IF kb_device # None THEN gh_kb_destroys + 1
                         ELSE gh_kb_destroys
    /\ kb_pc' = "exited"
    /\ UNCHANGED <<kb_queue, kb_lock, kb_running, kb_device, kb_cur,
                   gh_kb_written, gh_kb_enq, gh_kb_taken, gh_kb_regfail, gh_kb_fails>>

\* send_key(key_code, pressed): build the KeyEvent and append it under the
\* lock; there is no check of self.running or self.device and no raise
send_key(key_code, pressed) ==
    /\ kb_lock = "free"
    /\ Len(gh_kb_enq) < MaxKbEnq
    /\ kb_queue' = Append(kb_queue, KeyEvent(key_code, KeyAction(pressed)))
    /\ gh_kb_enq' = Append(gh_kb_enq, KeyEvent(key_code, KeyAction(pressed)))
    /\ UNCHANGED <<kb_lock, kb_running, kb_device, kb_pc, kb_cur,
                   gh_kb_written, gh_kb_taken, gh_kb_regfail, gh_kb_destroys, gh_kb_fails>>

\* a producer (the UI thread) calls send_key
KbSendKey == \E k \in KeyCodes, p \in BOOLEAN : send_key(k, p)

\* cleanup(): self.running = False; the join (at most 1 s) changes no state
KbCleanup ==
    /\ kb_running
    /\ kb_running' = FALSE
    /\ UNCHANGED <<kb_queue, kb_lock, kb_device, kb_pc, kb_cur,
                   gh_kb_written, gh_kb_enq, gh_kb_taken, gh_kb_regfail,
                   gh_kb_destroys, gh_kb_fails>>

NextKb ==
    /\ \/ KbCreate
       \/ KbDelay
       \/ KbCheck
       \/ KbPop
       \/ KbSend
       \/ KbSleep
       \/ KbDestroy
       \/ KbSendKey
       \/ KbCleanup
    /\ gh_kb_stop_at' = IF KbCleanup THEN Len(gh_kb_enq) ELSE gh_kb_stop_at
    /\ UNCHANGED <<tpVars, modVars, thVars, engVars>>

\* ========================================================================
\* UInputTouchpad
\* ========================================================================

\* slots the callers use (a subset of 0..MAX_SLOTS-1)
TpSlots == {0, 1}
\* tracking ids and device coordinates the callers pass
TpTrackingIds == {7}
TpPositions == {<<100, 200>>}
\* finger counts the callers pass
TpFingerCounts == {0, 2, 5}
\* button names the callers pass; "side" is not a key of BUTTON_MAP
TpButtonNames == {"left", "side"}

\* TouchEvent(event_type, slot=0, tracking_id=0, x=0, y=0, finger_count=0,
\*            button=0, pressed=False)
TouchEvent(event_type) ==
    [event_type |-> event_type, slot |-> 0, tracking_id |-> 0, x |-> 0,
     y |-> 0, finger_count |-> 0, button |-> "0", pressed |-> FALSE]

\* BUTTON_MAP.get(button): the button code, None for an unknown name
BUTTON_MAP(button) ==
    CASE button = "left" -> "BTN_LEFT"
      [] button = "right" -> "BTN_RIGHT"
      [] button = "middle" -> "BTN_MIDDLE"
      [] OTHER -> None

\* one low-level write to the touchpad device; `src` is the position in
\* gh_tp_taken of the queued event the worker was processing (history)
TpWrite(type, code, value) ==
    [kind |-> "write", type |-> type, code |-> code, value |-> value,
     src |-> Len(gh_tp_taken)]

\* an assignment to self._current_slot / a change of self._active_slots
TpSetSlot(slot) == [kind |-> "set_slot", slot |-> slot]
TpAddSlot(slot) == [kind |-> "add_slot", slot |-> slot]
TpDiscardSlot(slot) == [kind |-> "discard_slot", slot |-> slot]

\* __init__
TpInit ==
    /\ tp_queue = <<>>
    /\ tp_lock = "free"
    /\ tp_running = TRUE
    /\ tp_fd = None
    /\ tp_current_slot = 0
    /\ tp_active_slots = {}
    /\ tp_pc = "create"
    /\ tp_cur = <<>>
    /\ gh_tp_written = <<>>
    /\ gh_tp_enq = <<>>
    /\ gh_tp_taken = <<>>
    /\ gh_tp_calls = 0
    /\ gh_tp_regfail = FALSE
    /\ gh_tp_opens = 0
    /\ gh_tp_closes = 0
    /\ gh_tp_fails = 0
    /\ gh_tp_done = <<>>
    /\ gh_tp_api = <<>>
    /\ gh_tp_stop_at = -1

\* _event_loop, the except branch: print, self.running = False, return.
\* _destroy_device is not called on this path.
TpCreateFailedMutant ==
    /\ tp_running' = FALSE
    /\ tp_pc' = "crashed"
    /\ gh_tp_regfail' = TRUE
    /\ UNCHANGED gh_tp_closes
TpCreateFailed ==
    /\ tp_running' = FALSE
    /\ tp_pc' = "exited"
    /\ gh_tp_regfail' = TRUE
    /\ UNCHANGED gh_tp_closes

\* _event_loop, the try block around _create_device: os.open raises and
\* self.fd stays None; or os.open returns the descriptor and a later
\* ioctl / os.write of the registration raises; or all of it succeeds
TpCreate ==
    /\ tp_pc = "create"
    /\ \/ /\ TpCreateFailed
          /\ UNCHANGED <<tp_fd, gh_tp_opens>>
       \/ /\ tp_fd' = "fd"
          /\ gh_tp_opens' = gh_tp_opens + 1
          /\ TpCreateFailed
       \/ /\ tp_fd' = "fd"
          /\ gh_tp_opens' = gh_tp_opens + 1
          /\ tp_pc' = "delay"
          /\ UNCHANGED <<tp_running, gh_tp_regfail, gh_tp_closes>>
    /\ UNCHANGED <<tp_queue, tp_lock, tp_current_slot, tp_active_slots,
                   tp_cur, gh_tp_written, gh_tp_enq, gh_tp_taken,
                   gh_tp_calls, gh_tp_api, gh_tp_fails, gh_tp_done>>

\* time.sleep(0.1) after the device was created
TpDelay ==
    /\ tp_pc = "delay"
    /\ tp_pc' = "check"
    /\ UNCHANGED <<tp_queue, tp_lock, tp_running, tp_fd, tp_current_slot,
                   tp_active_slots, tp_cur, gh_tp_written, gh_tp_enq,
                   gh_tp_taken, gh_tp_calls, gh_tp_api, gh_tp_regfail, gh_tp_opens,
                   gh_tp_closes, gh_tp_fails, gh_tp_done>>

\* `while self.running:` and, when it holds, entering `with self.queue_lock:`
TpCheckMutant ==
    /\ tp_pc = "check"
    /\ tp_lock = "free"
    /\ tp_lock' = "worker"
    /\ tp_pc' = "locked"
    /\ UNCHANGED <<tp_queue, tp_running, tp_fd, tp_current_slot,
                   tp_active_slots, tp_cur, gh_tp_written, gh_tp_enq,
                   gh_tp_taken, gh_tp_calls, gh_tp_api, gh_tp_regfail,
                   gh_tp_opens, gh_tp_closes, gh_tp_fails, gh_tp_done>>
TpCheck ==
    /\ tp_pc = "check"
    /\ IF tp_running
         THEN /\ tp_lock = "free"
              /\ tp_lock' = "worker"
              /\ tp_pc' = "locked"
         ELSE /\ tp_pc' = "destroy"
              /\ UNCHANGED tp_lock
    /\ UNCHANGED <<tp_queue, tp_running, tp_fd, tp_current_slot,
                   tp_active_slots, tp_cur, gh_tp_written, gh_tp_enq,
                   gh_tp_taken, gh_tp_calls, gh_tp_api, gh_tp_regfail, gh_tp_opens,
                   gh_tp_closes, gh_tp_fails, gh_tp_done>>

\* self.event_queue.popleft(): the element removed and the queue left
TpPopLeftMutant(q) == <<q[Len(q)], Take(q, Len(q) - 1)>>
TpPopLeft(q) == <<Head(q), Tail(q)>>

\* inside the lock: `if self.event_queue: event = self.event_queue.popleft()`
\* and leaving the `with` block
TpPop ==
    /\ tp_pc = "locked"
    /\ IF tp_queue # <<>>
         THEN /\ tp_pc' = "send"
              /\ tp_cur' = <<TpPopLeft(tp_queue)[1]>>
              /\ tp_queue' = TpPopLeft(tp_queue)[2]
              /\ gh_tp_taken' = Append(gh_tp_taken, TpPopLeft(tp_queue)[1])
         ELSE /\ tp_pc' = "sleep"
              /\ tp_cur' = <<>>
              /\ UNCHANGED <<tp_queue, gh_tp_taken>>
    /\ tp_lock' = "free"
    /\ UNCHANGED <<tp_running, tp_fd, tp_current_slot, tp_active_slots,
                   gh_tp_written, gh_tp_enq, gh_tp_calls, gh_tp_api, gh_tp_regfail,
                   gh_tp_opens, gh_tp_closes, gh_tp_fails, gh_tp_done>>

\* "Select slot": if self._current_slot != event.slot: write ABS_MT_SLOT,
\* then self._current_slot = event.slot
TpSelectSlotMutant(event, current_slot) ==
    IF current_slot # event.slot
      THEN <<TpSetSlot(event.slot), TpWrite("EV_ABS", "ABS_MT_SLOT", event.slot)>>
      ELSE <<>>
TpSelectSlot(event, current_slot) ==
    IF current_slot # event.slot
      THEN <<TpWrite("EV_ABS", "ABS_MT_SLOT", event.slot), TpSetSlot(event.slot)>>
      ELSE <<>>

\* _send_event, event_type "down": select the slot, write tracking id, X
\* and Y, add the slot to self._active_slots
TpDownStepsMutant(event, current_slot) ==
    <<TpWrite("EV_ABS", "ABS_MT_SLOT", event.slot), TpSetSlot(event.slot),
      TpWrite("EV_ABS", "ABS_MT_TRACKING_ID", event.tracking_id),
      TpWrite("EV_ABS", "ABS_MT_POSITION_X", event.x),
      TpWrite("EV_ABS", "ABS_MT_POSITION_Y", event.y),
      TpAddSlot(event.slot)>>
TpDownSteps(event, current_slot) ==
    TpSelectSlot(event, current_slot) \o
    <<TpWrite("EV_ABS", "ABS_MT_TRACKING_ID", event.tracking_id),
      TpWrite("EV_ABS", "ABS_MT_POSITION_X", event.x),
      TpWrite("EV_ABS", "ABS_MT_POSITION_Y", event.y),
      TpAddSlot(event.slot)>>

\* _send_event, event_type "move": select the slot, write X and Y
TpMoveStepsMutant(event, current_slot) ==
    TpSelectSlot(event, current_slot) \o
    <<TpWrite("EV_ABS", "ABS_MT_POSITION_X", event.x),
      TpWrite("EV_ABS", "ABS_MT_POSITION_Y", event.y),
      TpAddSlot(event.slot)>>
TpMoveSteps(event, current_slot) ==
    TpSelectSlot(event, current_slot) \o
    <<TpWrite("EV_ABS", "ABS_MT_POSITION_X", event.x),
      TpWrite("EV_ABS", "ABS_MT_POSITION_Y", event.y)>>

\* _send_event, event_type "up": select the slot, write tracking id -1,
\* discard the slot from self._active_slots
TpUpStepsMutant(event, current_slot) ==
    TpSelectSlot(event, current_slot) \o
    <<TpWrite("EV_ABS", "ABS_MT_TRACKING_ID", -1)>>
TpUpSteps(event, current_slot) ==
    TpSelectSlot(event, current_slot) \o
    <<TpWrite("EV_ABS", "ABS_MT_TRACKING_ID", -1),
      TpDiscardSlot(event.slot)>>

\* _send_event, event_type "finger_count": BTN_TOUCH and the four
\* BTN_TOOL_* flags
TpFingerCountStepsMutant(event) ==
    <<TpWrite("EV_KEY", "BTN_TOUCH",
              IF event.finger_count > 0 THEN 1 ELSE 0),
      TpWrite("EV_KEY", "BTN_TOOL_FINGER",
              IF event.finger_count = 1 THEN 1 ELSE 0),
      TpWrite("EV_KEY", "BTN_TOOL_DOUBLETAP",
              IF event.finger_count = 2 THEN 1 ELSE 0),
      TpWrite("EV_KEY", "BTN_TOOL_TRIPLETAP",
              IF event.finger_count = 3 THEN 1 ELSE 0),
      TpWrite("EV_KEY", "BTN_TOOL_QUADTAP",
              IF event.finger_count = 4 THEN 1 ELSE 0)>>
TpFingerCountSteps(event) ==
    <<TpWrite("EV_KEY", "BTN_TOUCH",
              IF event.finger_count > 0 THEN 1 ELSE 0),
      TpWrite("EV_KEY", "BTN_TOOL_FINGER",
              IF event.finger_count = 1 THEN 1 ELSE 0),
      TpWrite("EV_KEY", "BTN_TOOL_DOUBLETAP",
              IF event.finger_count = 2 THEN 1 ELSE 0),
      TpWrite("EV_KEY", "BTN_TOOL_TRIPLETAP",
              IF event.finger_count = 3 THEN 1 ELSE 0),
      TpWrite("EV_KEY", "BTN_TOOL_QUADTAP",
              IF event.finger_count >= 4 THEN 1 ELSE 0)>>

\* _send_event(event): the writes and state changes it makes, in order,
\* when nothing raises
TpSendSteps(event, current_slot) ==
    CASE event.event_type = "down" -> TpDownSteps(event, current_slot)
      [] event.event_type = "move" -> TpMoveSteps(event, current_slot)
      [] event.event_type = "up" -> TpUpSteps(event, current_slot)
      [] event.event_type = "finger_count" -> TpFingerCountSteps(event)
      [] event.event_type = "button" ->
           <<TpWrite("EV_KEY", event.button, IF event.pressed THEN 1 ELSE 0)>>
      [] event.event_type = "sync" ->
           <<TpWrite("EV_SYN", "SYN_REPORT", 0)>>
      [] OTHER -> <<>>

\* how many of the steps are writes
TpNumWrites(steps) == Cardinality({i \in 1..Len(steps) : steps[i].kind = "write"})

\* the steps that run when the (n+1)-th write raises: everything before it
\* (all of them when there are no more than n writes)
TpStepsBeforeFail(steps, n) ==
    IF n >= TpNumWrites(steps) THEN steps
    ELSE LET k == CHOOSE k \in 1..Len(steps) :
                    /\ steps[k].kind = "write"
                    /\ TpNumWrites(Take(steps, k)) = n + 1
         IN  Take(steps, k - 1)

\* the value of a piece of state after `steps` ran from `init`
RECURSIVE TpFold(_, _, _)
TpFold(steps, kind, init) ==
    IF steps = <<>> THEN init
    ELSE LET prev == TpFold(Take(steps, Len(steps) - 1), kind, init)
             s == steps[Len(steps)]
         IN  CASE kind = "written" /\ s.kind = "write" ->
                    Append(prev, [type |-> s.type, code |-> s.code,
                                  value |-> s.value, src |-> s.src])
               [] kind = "current_slot" /\ s.kind = "set_slot" -> s.slot
               [] kind = "active_slots" /\ s.kind = "add_slot" -> prev \cup {s.slot}
               [] kind = "active_slots" /\ s.kind = "discard_slot" -> prev \ {s.slot}
               [] OTHER -> prev

\* `try: self._send_event(event) except Exception: print(...)`: _send_event
\* returns at once when self.fd is None; a write that raises ends it there,
\* the exception is caught and the loop goes on.  The local `event` is dead
\* after the call (the loop resets it to None).
TpSend ==
    /\ tp_pc = "send"
    /\ tp_pc' = "check"
    /\ IF tp_fd = None
         THEN UNCHANGED <<gh_tp_written, tp_current_slot, tp_active_slots,
                          gh_tp_fails, gh_tp_done>>
         ELSE LET steps == TpSendSteps(tp_cur[1], tp_current_slot) IN
              \E n \in 0..TpNumWrites(steps) :
                LET done == TpStepsBeforeFail(steps, n) IN
                /\ n < TpNumWrites(steps) => gh_tp_fails < MaxWriteFails
                /\ gh_tp_fails' = IF n < TpNumWrites(steps)
                                   THEN gh_tp_fails + 1 ELSE gh_tp_fails
                /\ gh_tp_written' = TpFold(done, "written", gh_tp_written)
                /\ tp_current_slot' = TpFold(done, "current_slot", tp_current_slot)
                /\ tp_active_slots' = TpFold(done, "active_slots", tp_active_slots)
                /\ gh_tp_done' = Append(gh_tp_done,
                                        [event |-> tp_cur[1],
                                         current_slot |-> tp_current_slot,
                                         active_slots |-> tp_active_slots,
                                         raised |-> n < TpNumWrites(steps)])
    /\ tp_cur' = <<>>
    /\ UNCHANGED <<tp_queue, tp_lock, tp_running, tp_fd, gh_tp_enq,
                   gh_tp_taken, gh_tp_calls, gh_tp_api, gh_tp_regfail, gh_tp_opens,
                   gh_tp_closes>>

\* time.sleep(0.001) when the queue was empty
TpSleep ==
    /\ tp_pc = "sleep"
    /\ tp_pc' = "check"
    /\ UNCHANGED <<tp_queue, tp_lock, tp_running, tp_fd, tp_current_slot,
                   tp_active_slots, tp_cur, gh_tp_written, gh_tp_enq,
                   gh_tp_taken, gh_tp_calls, gh_tp_api, gh_tp_regfail, gh_tp_opens,
                   gh_tp_closes, gh_tp_fails, gh_tp_done>>

\* after the loop: _destroy_device(): if self.fd is not None:
\* ioctl(UI_DEV_DESTROY), os.close(self.fd), self.fd = None; the thread ends
TpDestroy ==
    /\ tp_pc = "destroy"
    /\ IF tp_fd # None
         THEN /\ gh_tp_closes' = gh_tp_closes + 1
              /\ tp_fd' = None
         ELSE UNCHANGED <<gh_tp_closes, tp_fd>>
    /\ tp_pc' = "exited"
    /\ UNCHANGED <<tp_queue, tp_lock, tp_running, tp_current_slot,
                   tp_active_slots, tp_cur, gh_tp_written, gh_tp_enq,
                   gh_tp_taken, gh_tp_calls, gh_tp_api, gh_tp_regfail, gh_tp_opens,
                   gh_tp_fails, gh_tp_done>>

\* `with self.queue_lock: self.event_queue.append(event)`, for the events
\* one producer call appends.  No producer reads self.running or self.fd,
\* and none raises.
TpEnqueue(events) ==
    /\ tp_lock = "free"
    /\ gh_tp_calls < MaxTpCalls
    /\ gh_tp_calls' = gh_tp_calls + 1
    /\ tp_queue' = tp_queue \o events
    /\ gh_tp_enq' = gh_tp_enq \o events
    /\ UNCHANGED <<tp_lock, tp_running, tp_fd, tp_current_slot,
                   tp_active_slots, tp_pc, tp_cur, gh_tp_written,
                   gh_tp_taken, gh_tp_regfail, gh_tp_opens, gh_tp_closes,
                   gh_tp_fails, gh_tp_done>>

\* the events each producer call builds
DownEvent(slot, tracking_id, x, y) ==
    [TouchEvent("down") EXCEPT !.slot = slot, !.tracking_id = tracking_id,
                               !.x = x, !.y = y]
MoveEvent(slot, x, y) ==
    [TouchEvent("move") EXCEPT !.slot = slot, !.x = x, !.y = y]
UpEvent(slot) == [TouchEvent("up") EXCEPT !.slot = slot]
FingerCountEvent(count) ==
    [TouchEvent("finger_count") EXCEPT !.finger_count = count]
SyncEvent == TouchEvent("sync")
ButtonEvent(button_code, pressed) ==
    [TouchEvent("button") EXCEPT !.button = button_code, !.pressed = pressed]

\* click(button, pressed): the events it appends: one button event, or
\* nothing when BUTTON_MAP has no such button
ClickEvents(button, pressed) ==
    IF BUTTON_MAP(button) # None
      THEN <<ButtonEvent(BUTTON_MAP(button), pressed)>>
      ELSE <<>>

\* tap(button): click(pressed=True), sync(), click(pressed=False), sync().
\* Each of the four takes the lock on its own; the worker may pop in
\* between, which changes nothing about what is appended, or in what order.
TapEventsMutant(button) ==
    ClickEvents(button, TRUE) \o <<SyncEvent>> \o ClickEvents(button, FALSE)
TapEvents(button) ==
    ClickEvents(button, TRUE) \o <<SyncEvent>> \o
    ClickEvents(button, FALSE) \o <<SyncEvent>>

\* the history of one producer call: its name, its button argument ("-"
\* when it has none) and how many events had been appended before it
TpApi(fn, button) ==
    gh_tp_api' = Append(gh_tp_api, [fn |-> fn, button |-> button,
                                    at |-> Len(gh_tp_enq)])

touch_down ==
    \E slot \in TpSlots, tracking_id \in TpTrackingIds, p \in TpPositions :
        /\ TpEnqueue(<<DownEvent(slot, tracking_id, p[1], p[2])>>)
        /\ TpApi("touch_down", "-")
touch_move ==
    \E slot \in TpSlots, p \in TpPositions :
        /\ TpEnqueue(<<MoveEvent(slot, p[1], p[2])>>)
        /\ TpApi("touch_move", "-")
touch_up ==
    \E slot \in TpSlots :
        /\ TpEnqueue(<<UpEvent(slot)>>)
        /\ TpApi("touch_up", "-")
set_finger_count ==
    \E count \in TpFingerCounts :
        /\ TpEnqueue(<<FingerCountEvent(count)>>)
        /\ TpApi("set_finger_count", "-")
sync ==
    /\ TpEnqueue(<<SyncEvent>>)
    /\ TpApi("sync", "-")
click ==
    \E button \in TpButtonNames, pressed \in BOOLEAN :
        /\ TpEnqueue(ClickEvents(button, pressed))
        /\ TpApi("click", button)
tap ==
    \E button \in TpButtonNames :
        /\ TpEnqueue(TapEvents(button))
        /\ TpApi("tap", button)

\* cleanup(): self.running = False; the join (at most 1 s) changes no state
TpCleanup ==
    /\ tp_running
    /\ tp_running' = FALSE
    /\ UNCHANGED <<tp_queue, tp_lock, tp_fd, tp_current_slot,
                   tp_active_slots, tp_pc, tp_cur, gh_tp_written, gh_tp_enq,
                   gh_tp_taken, gh_tp_calls, gh_tp_api, gh_tp_regfail, gh_tp_opens,
                   gh_tp_closes, gh_tp_fails, gh_tp_done>>

NextTp ==
    /\ \/ TpCreate
       \/ TpDelay
       \/ TpCheck
       \/ TpPop
       \/ TpSend
       \/ TpSleep
       \/ TpDestroy
       \/ touch_down
       \/ touch_move
       \/ touch_up
       \/ set_finger_count
       \/ sync
       \/ click
       \/ tap
       \/ TpCleanup
    /\ gh_tp_stop_at' = IF TpCleanup THEN Len(gh_tp_enq) ELSE gh_tp_stop_at
    /\ UNCHANGED <<kbVars, modVars, thVars, engVars>>

\* ========================================================================
\* ModifierState
\* ========================================================================

Modifiers == {"shift", "ctrl"}
TouchIds == {1, 2}

\* __init__: no modifier is active.  The dict is a function on its keys.
ModInit ==
    /\ active_modifiers = [m \in {} |-> 0]
    /\ gh_mod_calls = <<>>

\* dict.get(modifier) == touch_id: None, the value of a missing key, equals
\* no touch id
ModGetIs(d, modifier, touch_id) ==
    modifier \in DOMAIN d /\ d[modifier] = touch_id

\* d[modifier] = touch_id
ModSet(d, modifier, touch_id) ==
    [m \in DOMAIN d \cup {modifier} |-> IF m = modifier THEN touch_id ELSE d[m]]

\* del d[modifier]
ModDel(d, modifier) == [m \in DOMAIN d \ {modifier} |-> d[m]]

\* press(modifier, touch_id): self._active_modifiers[modifier] = touch_id
PressResultMutant(d, modifier, touch_id) ==
    IF modifier \in DOMAIN d THEN d ELSE ModSet(d, modifier, touch_id)
PressResult(d, modifier, touch_id) == ModSet(d, modifier, touch_id)

\* release(modifier, touch_id):
\*   if self._active_modifiers.get(modifier) == touch_id: del ...
ReleaseResultMutant(d, modifier, touch_id) ==
    IF modifier \in DOMAIN d THEN ModDel(d, modifier) ELSE d
ReleaseResult(d, modifier, touch_id) ==
    IF ModGetIs(d, modifier, touch_id) THEN ModDel(d, modifier) ELSE d

\* is_active(modifier)
is_active(modifier) == modifier \in DOMAIN active_modifiers

\* get_all_active()
get_all_active == DOMAIN active_modifiers

ModPress ==
    \E m \in Modifiers, t \in TouchIds :
        /\ Len(gh_mod_calls) < MaxModCalls
        /\ active_modifiers' = PressResult(active_modifiers, m, t)
        /\ gh_mod_calls' = Append(gh_mod_calls,
                                  [op |-> "press", modifier |-> m, touch_id |-> t])

ModRelease ==
    \E m \in Modifiers, t \in TouchIds :
        /\ Len(gh_mod_calls) < MaxModCalls
        /\ active_modifiers' = ReleaseResult(active_modifiers, m, t)
        /\ gh_mod_calls' = Append(gh_mod_calls,
                                  [op |-> "release", modifier |-> m, touch_id |-> t])

NextMod ==
    /\ \/ ModPress
       \/ ModRelease
    /\ UNCHANGED <<kbVars, tpVars, thVars, engVars>>

\* ========================================================================
\* TouchHandler (the keyboard touch layer)
\* ========================================================================

\* the keys active_touches is indexed by: str(id(sequence)) of a touch
\* sequence, "mouse" when the gesture has no sequence
ThSequenceKeys == {"seq1", "mouse"}

\* layout/parser.py, class Key: the fields of the dataclass and its methods
KeyAttributes ==
    {"label", "key", "width", "classes", "modifier", "secondary_label",
     "top_key", "bottom_key", "is_split", "get_uinput_key"}

\* some keys of a layout, as LayoutParser.load builds them: Key(**key_data)
ThKeys ==
    { [label |-> "Shift", key |-> "KEY_LEFTSHIFT", modifier |-> "shift"],
      [label |-> "Ctrl", key |-> "KEY_LEFTCTRL", modifier |-> "ctrl"],
      [label |-> "a", key |-> "KEY_A", modifier |-> None] }

\* python-uinput names a key by the tuple (event type, code)
UinputKey(name) == <<"EV_KEY", name>>

\* Key.get_uinput_key(): getattr(uinput, self.key)
get_uinput_key(key) == UinputKey(key.key)

\* self._modifier_keys
modifier_keys ==
    [shift |-> "KEY_LEFTSHIFT", ctrl |-> "KEY_LEFTCTRL", alt |-> "KEY_LEFTALT"]

\* the code _press_active_modifiers and _release_active_modifiers send for
\* a modifier: key_tuple[1], the second element of the tuple
ModifierKeyCode(modifier) == UinputKey(modifier_keys[modifier])[2]

\* key.is_modifier: the value of the attribute, AttributeError when the
\* object has no attribute of that name
AttributeError == "AttributeError"
is_modifier(key) ==
    IF "is_modifier" \in KeyAttributes THEN key.is_modifier ELSE AttributeError

\* the orders a `for` loop may visit the elements of a set in
Orders(S) ==
    {o \in [1..Cardinality(S) -> S] :
        \A i, j \in 1..Cardinality(S) : i # j => o[i] # o[j]}

\* the send_key calls of one loop over modifiers, in the order `order`;
\* a modifier _modifier_keys does not know is skipped (`if key_name:`)
ModifierCalls(order, pressed) ==
    LET known == SelectSeq(order, LAMBDA m : m \in DOMAIN modifier_keys) IN
    [i \in 1..Len(known) |-> KeyEvent(ModifierKeyCode(known[i]), KeyAction(pressed))]

\* __init__
ThInit ==
    /\ th_active_touches = [k \in {} |-> 0]
    /\ th_next_touch_id = 0
    /\ th_pressed_modifiers = {}
    /\ gh_th_events = 0
    /\ gh_th_last = [ev |-> "none"]

\* history: one handler invocation.  `tracked`: the sequence key was in
\* active_touches when the handler was entered; `calls`: the send_key calls
\* it made, in order; `raised`: an exception was raised in it; `escaped`:
\* the exception left the handler
ThLast(ev, sequence_key, key, tracked, calls, raised, escaped) ==
    [ev |-> ev, sequence_key |-> sequence_key, key |-> key,
     tracked |-> tracked, calls |-> calls, raised |-> raised,
     escaped |-> escaped, active_before |-> get_all_active,
     pressed_before |-> th_pressed_modifiers]

\* the handler's send_key calls, each an append to the keyboard's queue
ThSend(calls) ==
    /\ kb_queue' = kb_queue \o calls
    /\ gh_kb_enq' = gh_kb_enq \o calls
    /\ UNCHANGED <<kb_lock, kb_running, kb_device, kb_pc, kb_cur,
                   gh_kb_written, gh_kb_taken, gh_kb_regfail,
                   gh_kb_destroys, gh_kb_fails, gh_kb_stop_at>>

\* _on_button_press(gesture, n_press, x, y, button)
_on_button_press ==
    \E sequence_key \in ThSequenceKeys, key \in ThKeys :
        LET touch_id == th_next_touch_id
            tracked == sequence_key \in DOMAIN th_active_touches IN
        /\ gh_th_events < MaxThEvents
        /\ gh_th_events' = gh_th_events + 1
        /\ th_next_touch_id' = th_next_touch_id + 1
        /\ th_active_touches' =
               ModSet(th_active_touches, sequence_key,
                      [key |-> key, touch_id |-> touch_id])
        /\ IF is_modifier(key) = AttributeError
           THEN \* the lookup raises; `except Exception` prints and returns
                /\ gh_th_last' = ThLast("press", sequence_key, <<key>>, tracked,
                                        <<>>, TRUE, FALSE)
                /\ UNCHANGED <<kbVars, modVars, th_pressed_modifiers>>
           ELSE IF is_modifier(key) = TRUE
           THEN \* self.modifier_state.press(button.key.modifier, touch_id)
                /\ active_modifiers' =
                       PressResult(active_modifiers, key.modifier, touch_id)
                /\ gh_mod_calls' =
                       Append(gh_mod_calls, [op |-> "press",
                              modifier |-> key.modifier, touch_id |-> touch_id])
                /\ gh_th_last' = ThLast("press", sequence_key, <<key>>, tracked,
                                        <<>>, FALSE, FALSE)
                /\ UNCHANGED <<kbVars, th_pressed_modifiers>>
           ELSE \* _press_active_modifiers(), then the key's own press
                \E order \in Orders(get_all_active \ th_pressed_modifiers) :
                    LET calls == ModifierCalls(order, TRUE)
                                 \o <<KeyEvent(get_uinput_key(key), "press")>> IN
                    /\ ThSend(calls)
                    /\ th_pressed_modifiers' =
                           th_pressed_modifiers
                           \cup ((get_all_active \ th_pressed_modifiers)
                                 \cap DOMAIN modifier_keys)
                    /\ gh_th_last' = ThLast("press", sequence_key, <<key>>,
                                            tracked, calls, FALSE, FALSE)
                    /\ UNCHANGED modVars

\* what a release or a cancel does with a tracked contact once is_modifier
\* has been read: the tracker's release for a modifier key, the key's
\* release for any other, then _release_active_modifiers() and the `del`
ThEndTracked(ev, sequence_key) ==
    LET key == th_active_touches[sequence_key].key
        touch_id == th_active_touches[sequence_key].touch_id
        active == IF is_modifier(key) = TRUE
                  THEN DOMAIN ReleaseResult(active_modifiers, key.modifier, touch_id)
                  ELSE get_all_active
        own == IF is_modifier(key) = TRUE
               THEN <<>>
               ELSE <<KeyEvent(get_uinput_key(key), "release")>> IN
    \E order \in Orders(th_pressed_modifiers \ active) :
        LET calls == own \o ModifierCalls(order, FALSE) IN
        /\ IF is_modifier(key) = TRUE
           THEN /\ active_modifiers' =
                       ReleaseResult(active_modifiers, key.modifier, touch_id)
                /\ gh_mod_calls' =
                       Append(gh_mod_calls, [op |-> "release",
                              modifier |-> key.modifier, touch_id |-> touch_id])
           ELSE UNCHANGED modVars
        /\ ThSend(calls)
        /\ th_pressed_modifiers' = th_pressed_modifiers \cap active
        /\ th_active_touches' = ModDel(th_active_touches, sequence_key)
        /\ gh_th_last' = ThLast(ev, sequence_key, <<key>>, TRUE, calls,
                                FALSE, FALSE)

\* _on_button_release(gesture, n_press, x, y, button)
_on_button_release ==
    \E sequence_key \in ThSequenceKeys :
        /\ gh_th_events < MaxThEvents
        /\ gh_th_events' = gh_th_events + 1
        /\ UNCHANGED th_next_touch_id
        /\ IF sequence_key \notin DOMAIN th_active_touches
           THEN \* not in active touches: return
                /\ gh_th_last' = ThLast("release", sequence_key, <<>>, FALSE,
                                        <<>>, FALSE, FALSE)
                /\ UNCHANGED <<kbVars, modVars, th_active_touches,
                               th_pressed_modifiers>>
           ELSE IF is_modifier(th_active_touches[sequence_key].key) = AttributeError
           THEN \* the lookup raises; `except Exception` prints and returns,
                \* the `del` is not reached
                /\ gh_th_last' = ThLast("release", sequence_key,
                                        <<th_active_touches[sequence_key].key>>,
                                        TRUE, <<>>, TRUE, FALSE)
                /\ UNCHANGED <<kbVars, modVars, th_active_touches,
                               th_pressed_modifiers>>
           ELSE ThEndTracked("release", sequence_key)

\* _on_button_cancel(gesture, sequence, button): no try block
_on_button_cancel ==
    \E sequence_key \in ThSequenceKeys :
        /\ gh_th_events < MaxThEvents
        /\ gh_th_events' = gh_th_events + 1
        /\ UNCHANGED th_next_touch_id
        /\ IF sequence_key \notin DOMAIN th_active_touches
           THEN /\ gh_th_last' = ThLast("cancel", sequence_key, <<>>, FALSE,
                                        <<>>, FALSE, FALSE)
                /\ UNCHANGED <<kbVars, modVars, th_active_touches,
                               th_pressed_modifiers>>
           ELSE IF is_modifier(th_active_touches[sequence_key].key) = AttributeError
           THEN \* the lookup raises and the exception leaves the handler
                /\ gh_th_last' = ThLast("cancel", sequence_key,
                                        <<th_active_touches[sequence_key].key>>,
                                        TRUE, <<>>, TRUE, TRUE)
                /\ UNCHANGED <<kbVars, modVars, th_active_touches,
                               th_pressed_modifiers>>
           ELSE ThEndTracked("cancel", sequence_key)

NextTouch ==
    /\ \/ _on_button_press
       \/ _on_button_release
       \/ _on_button_cancel
    /\ UNCHANGED <<tpVars, engVars>>

\* ========================================================================
\* TouchpadHandler (the gesture engine)
\* ========================================================================

\* Gdk event sequences: opaque tokens, unique while the finger is down; a
\* new finger gets the least token not in use
EngSequences == 1..3

\* positions (x, y) that touch events carry, in 1/100 of a unit
EngPositions == {<<1500, 0>>, <<1500, 160>>}

\* where a finger comes down; the engine uses differences of positions only
EngStartPositions == {<<0, 0>>}

\* how far time.monotonic() may advance between two events, in 1/100 s
EngTickSteps == {25}

\* class defaults of TouchpadHandler, in 1/100
DEFAULT_POINTER_SENSITIVITY == 200
DEFAULT_SCROLL_SENSITIVITY == 15
DEFAULT_TAP_MAX_DURATION == 25
DEFAULT_TAP_MAX_MOVEMENT == 1500
DEFAULT_TAP_DRAG_WINDOW == 25

\* values a settings manager may hold, in 1/100: pointer_sensitivity,
\* scroll_sensitivity, tap_drag_window
EngPointerSensitivities == {DEFAULT_POINTER_SENSITIVITY}
EngScrollSensitivities == {DEFAULT_SCROLL_SENSITIVITY}
EngTapDragWindows == {DEFAULT_TAP_DRAG_WINDOW, 200}

\* the methods UInputTouchpad defines
TouchpadMethods ==
    {"touch_down", "touch_move", "touch_up", "set_finger_count", "sync",
     "click", "tap", "cleanup"}

\* int(x) of a float x given in 1/10000: truncation toward zero
TruncInt(a) == IF a >= 0 THEN a \div 10000 ELSE -((-a) \div 10000)
Abs(a) == IF a >= 0 THEN a ELSE -a
Max2(a, b) == IF a >= b THEN a ELSE b

\* TouchState(sequence, start_x, start_y, last_x, last_y, start_time,
\* has_moved); start_time is stored and never read, and is left out
TouchState(sequence, x, y) ==
    [sequence |-> sequence, start_x |-> x, start_y |-> y, last_x |-> x,
     last_y |-> y, has_moved |-> FALSE]

\* a call the engine makes on its touchpad object
EngCall(fn, button, pressed, dx, dy) ==
    [fn |-> fn, button |-> button, pressed |-> pressed, dx |-> dx, dy |-> dy]
EngClick(button, pressed) == EngCall("click", button, pressed, 0, 0)
EngTap(button) == EngCall("tap", button, FALSE, 0, 0)
EngMovePointer(dx, dy) == EngCall("move_pointer", "-", FALSE, dx, dy)
EngScroll(dx, dy) == EngCall("scroll", "-", FALSE, dx, dy)

\* what the history keeps of one handler invocation
EngLast(ev, tracked, n_before, drag_before, calls, raised) ==
    [ev |-> ev, at |-> eng_now, tracked |-> tracked, n_before |-> n_before,
     drag_before |-> drag_before, calls |-> calls, raised |-> raised,
     moved_before |-> eng_any_finger_moved,
     carry_before |-> \/ eng_pointer_accumulator # <<0, 0>>
                      \/ eng_scroll_accumulator # <<0, 0>>]

\* __init__ with a settings manager, whose values _apply_settings copies.
\* Without one the class defaults apply, which are among the values a
\* manager may hold, and no change callback ever runs.
EngInit ==
    /\ eng_pointer_sensitivity \in EngPointerSensitivities
    /\ eng_scroll_sensitivity \in EngScrollSensitivities
    /\ eng_tap_max_duration = DEFAULT_TAP_MAX_DURATION
    /\ eng_tap_max_movement = DEFAULT_TAP_MAX_MOVEMENT
    /\ eng_tap_drag_enabled \in BOOLEAN
    /\ eng_tap_drag_window \in EngTapDragWindows
    /\ eng_active_touches = [s \in {} |-> 0]
    /\ eng_max_fingers_in_gesture = 0
    /\ eng_any_finger_moved = FALSE
    /\ eng_first_touch_time = 0
    /\ eng_last_tap_time = 0
    /\ eng_tap_drag_active = FALSE
    /\ eng_pointer_accumulator = <<0, 0>>
    /\ eng_scroll_accumulator = <<0, 0>>
    \* time.monotonic() reads 1 s when the handler is constructed
    /\ eng_now = 100
    /\ gh_eng_events = 0
    /\ gh_eng_last = EngLast("init", FALSE, 0, FALSE, <<>>, FALSE)
    /\ gh_sess = [start |-> 0, peak |-> 0, far |-> 0, pointer |-> FALSE,
                  sent |-> <<0, 0>>, fwd |-> TRUE, cancelled |-> FALSE]
    /\ gh_last_single_tap = <<>>
    /\ gh_drag_held = FALSE
    /\ gh_drag_spent = 0

\* one handler invocation: what it did is kept in the history; the left
\* button is held from the engine's click("left", True) to its
\* click("left", False)
EngIssue(last) ==
    /\ gh_eng_events < MaxEngEvents
    /\ gh_eng_events' = gh_eng_events + 1
    /\ gh_eng_last' = last
    /\ gh_drag_held' =
          IF \E i \in 1..Len(last.calls) : last.calls[i] = EngClick("left", FALSE)
            THEN FALSE
          ELSE IF \E i \in 1..Len(last.calls) : last.calls[i] = EngClick("left", TRUE)
            THEN TRUE
          ELSE gh_drag_held
    /\ gh_drag_spent' =
          IF \E i \in 1..Len(last.calls) : last.calls[i] = EngTap("left")
            THEN 0
          ELSE IF last.ev = "begin" /\ last.calls # <<>>
            THEN gh_drag_spent + 1
          ELSE gh_drag_spent

\* the sequences an event may carry: those of the fingers that are down
\* and, standing for every sequence the engine does not track, the least
\* one not in use
EngFreeSequences == EngSequences \ DOMAIN eng_active_touches
EngLeastFree == {s \in EngFreeSequences : \A t \in EngFreeSequences : s <= t}
EngEventSequences == DOMAIN eng_active_touches \cup EngLeastFree

engSettings == <<eng_pointer_sensitivity, eng_scroll_sensitivity,
                 eng_tap_max_duration, eng_tap_max_movement,
                 eng_tap_drag_enabled, eng_tap_drag_window>>

\* time passes between two events
EngTick ==
    \E d \in EngTickSteps :
        /\ eng_now + d <= 100 + MaxEngClock
        /\ eng_now' = eng_now + d
        /\ UNCHANGED <<engSettings, eng_active_touches,
                       eng_max_fingers_in_gesture, eng_any_finger_moved,
                       eng_first_touch_time, eng_last_tap_time,
                       eng_tap_drag_active, eng_pointer_accumulator,
                       eng_scroll_accumulator, gh_eng_events, gh_eng_last,
                       gh_sess, gh_last_single_tap, gh_drag_held,
                       gh_drag_spent>>

\* _apply_settings, called by _on_settings_changed
SettingsChanged ==
    \E ps \in EngPointerSensitivities, ss \in EngScrollSensitivities,
       en \in BOOLEAN, w \in EngTapDragWindows :
        /\ <<ps, ss, en, w>> # <<eng_pointer_sensitivity, eng_scroll_sensitivity,
                                 eng_tap_drag_enabled, eng_tap_drag_window>>
        /\ eng_pointer_sensitivity' = ps
        /\ eng_scroll_sensitivity' = ss
        /\ eng_tap_drag_enabled' = en
        /\ eng_tap_drag_window' = w
        /\ eng_tap_max_duration' = DEFAULT_TAP_MAX_DURATION
        /\ eng_tap_max_movement' = DEFAULT_TAP_MAX_MOVEMENT
        /\ EngIssue(EngLast("settings", FALSE, Cardinality(DOMAIN eng_active_touches),
                            eng_tap_drag_active, <<>>, FALSE))
        /\ UNCHANGED <<eng_active_touches, eng_max_fingers_in_gesture,
                       eng_any_finger_moved, eng_first_touch_time,
                       eng_last_tap_time, eng_tap_drag_active,
                       eng_pointer_accumulator, eng_scroll_accumulator,
                       eng_now, gh_sess, gh_last_single_tap>>

\* _on_touch_begin, line 171: the tap-drag check at the first finger
TapDragStartsMutant(now) ==
    /\ eng_tap_drag_enabled /\ (now - eng_last_tap_time) < eng_tap_drag_window
    /\ gh_drag_spent = 0
TapDragStarts(now) ==
    eng_tap_drag_enabled /\ (now - eng_last_tap_time) < eng_tap_drag_window

\* _on_touch_begin
TouchBeginMutant ==
    \E sequence \in EngLeastFree, p \in EngStartPositions :
      LET first == DOMAIN eng_active_touches = {}
          drag == first /\ TapDragStarts(eng_now)
          touches == [s \in DOMAIN eng_active_touches \cup {sequence} |->
                        IF s = sequence
                          THEN TouchState(sequence, p[1], p[2])
                          ELSE eng_active_touches[s]]
          count == Cardinality(DOMAIN touches)
      IN
        /\ sequence \notin DOMAIN eng_active_touches
        /\ eng_first_touch_time' = IF first THEN eng_now ELSE eng_first_touch_time
        /\ eng_any_finger_moved' = IF first THEN FALSE ELSE eng_any_finger_moved
        /\ eng_scroll_accumulator' = IF first THEN <<0, 0>> ELSE eng_scroll_accumulator
        /\ eng_pointer_accumulator' = eng_pointer_accumulator
        /\ eng_tap_drag_active' = IF drag THEN TRUE ELSE eng_tap_drag_active
        /\ eng_active_touches' = touches
        /\ eng_max_fingers_in_gesture' =
              Max2(IF first THEN 0 ELSE eng_max_fingers_in_gesture, count)
        /\ gh_sess' = IF first
                        THEN [start |-> eng_now, peak |-> 1, far |-> 0,
                              pointer |-> FALSE, sent |-> <<0, 0>>,
                              fwd |-> TRUE, cancelled |-> FALSE]
                        ELSE [gh_sess EXCEPT !.peak = Max2(@, count)]
        /\ EngIssue(EngLast("begin", FALSE, Cardinality(DOMAIN eng_active_touches),
                            eng_tap_drag_active,
                            IF drag THEN <<EngClick("left", TRUE)>> ELSE <<>>,
                            FALSE))
        /\ UNCHANGED <<engSettings, eng_last_tap_time, eng_now,
                       gh_last_single_tap>>
TouchBegin ==
    \E sequence \in EngLeastFree, p \in EngStartPositions :
      LET first == DOMAIN eng_active_touches = {}
          drag == first /\ TapDragStarts(eng_now)
          touches == [s \in DOMAIN eng_active_touches \cup {sequence} |->
                        IF s = sequence
                          THEN TouchState(sequence, p[1], p[2])
                          ELSE eng_active_touches[s]]
          count == Cardinality(DOMAIN touches)
      IN
        /\ sequence \notin DOMAIN eng_active_touches
        /\ eng_first_touch_time' = IF first THEN eng_now ELSE eng_first_touch_time
        /\ eng_any_finger_moved' = IF first THEN FALSE ELSE eng_any_finger_moved
        /\ eng_scroll_accumulator' = IF first THEN <<0, 0>> ELSE eng_scroll_accumulator
        /\ eng_pointer_accumulator' = IF first THEN <<0, 0>> ELSE eng_pointer_accumulator
        /\ eng_tap_drag_active' = IF drag THEN TRUE ELSE eng_tap_drag_active
        /\ eng_active_touches' = touches
        /\ eng_max_fingers_in_gesture' =
              Max2(IF first THEN 0 ELSE eng_max_fingers_in_gesture, count)
        /\ gh_sess' = IF first
                        THEN [start |-> eng_now, peak |-> 1, far |-> 0,
                              pointer |-> FALSE, sent |-> <<0, 0>>,
                              fwd |-> TRUE, cancelled |-> FALSE]
                        ELSE [gh_sess EXCEPT !.peak = Max2(@, count)]
        /\ EngIssue(EngLast("begin", FALSE, Cardinality(DOMAIN eng_active_touches),
                            eng_tap_drag_active,
                            IF drag THEN <<EngClick("left", TRUE)>> ELSE <<>>,
                            FALSE))
        /\ UNCHANGED <<engSettings, eng_last_tap_time, eng_now,
                       gh_last_single_tap>>

\* _process_single_finger_motion(dx, dy): the accumulator it leaves, the
\* calls it makes and whether it raised.  UInputTouchpad defines no
\* move_pointer: the attribute lookup raises AttributeError before the
\* accumulator is reduced.
SingleFingerMotion(acc, dx, dy) ==
    LET ax == acc[1] + dx * eng_pointer_sensitivity
        ay == acc[2] + dy * eng_pointer_sensitivity
        pointer_dx == TruncInt(ax)
        pointer_dy == TruncInt(ay)
    IN  IF pointer_dx # 0 \/ pointer_dy # 0
          THEN IF "move_pointer" \in TouchpadMethods
                 THEN [pointer |-> <<ax - pointer_dx * 10000, ay - pointer_dy * 10000>>,
                       calls |-> <<EngMovePointer(pointer_dx, pointer_dy)>>,
                       raised |-> FALSE]
                 ELSE [pointer |-> <<ax, ay>>,
                       calls |-> <<EngMovePointer(pointer_dx, pointer_dy)>>,
                       raised |-> TRUE]
          ELSE [pointer |-> <<ax, ay>>, calls |-> <<>>, raised |-> FALSE]

\* _process_two_finger_motion(dx, dy), likewise: UInputTouchpad defines no
\* scroll
TwoFingerMotion(acc, dx, dy) ==
    LET ax == acc[1] + dx * eng_scroll_sensitivity
        ay == acc[2] - dy * eng_scroll_sensitivity
        scroll_x == TruncInt(ax)
        scroll_y == TruncInt(ay)
    IN  IF scroll_x # 0 \/ scroll_y # 0
          THEN IF "scroll" \in TouchpadMethods
                 THEN [scroll |-> <<ax - scroll_x * 10000, ay - scroll_y * 10000>>,
                       calls |-> <<EngScroll(scroll_x, scroll_y)>>,
                       raised |-> FALSE]
                 ELSE [scroll |-> <<ax, ay>>,
                       calls |-> <<EngScroll(scroll_x, scroll_y)>>,
                       raised |-> TRUE]
          ELSE [scroll |-> <<ax, ay>>, calls |-> <<>>, raised |-> FALSE]

\* _on_touch_update
TouchUpdateMutant ==
    \E sequence \in EngEventSequences :
      LET n == Cardinality(DOMAIN eng_active_touches) IN
      IF sequence \notin DOMAIN eng_active_touches
        THEN /\ EngIssue(EngLast("update", FALSE, n, eng_tap_drag_active, <<>>, FALSE))
             /\ UNCHANGED <<engSettings, eng_active_touches,
                            eng_max_fingers_in_gesture, eng_any_finger_moved,
                            eng_first_touch_time, eng_last_tap_time,
                            eng_tap_drag_active, eng_pointer_accumulator,
                            eng_scroll_accumulator, eng_now, gh_sess,
                            gh_last_single_tap>>
        ELSE \E p \in EngPositions :
          LET touch == eng_active_touches[sequence]
              dx == p[1] - touch.last_x
              dy == p[2] - touch.last_y
              total_movement == Abs(p[1] - touch.start_x) + Abs(p[2] - touch.start_y)
              moved == total_movement > eng_tap_max_movement
              one == SingleFingerMotion(eng_pointer_accumulator, dx, dy)
              two == TwoFingerMotion(eng_scroll_accumulator, dx, dy)
          IN
            /\ eng_active_touches' =
                  [eng_active_touches EXCEPT ![sequence] =
                      [touch EXCEPT !.last_x = p[1], !.last_y = p[2],
                                    !.has_moved = IF moved THEN TRUE ELSE @]]
            /\ eng_any_finger_moved' = IF moved THEN TRUE ELSE eng_any_finger_moved
            /\ eng_pointer_accumulator' =
                  IF n <= 2 THEN one.pointer ELSE eng_pointer_accumulator
            /\ eng_scroll_accumulator' =
                  IF n > 2 THEN two.scroll ELSE eng_scroll_accumulator
            /\ gh_sess' =
                  [gh_sess EXCEPT
                     !.far = Max2(@, total_movement),
                     !.pointer = @ \/ (n <= 2 /\ one.calls # <<>>),
                     !.sent = IF n <= 2 /\ one.calls # <<>>
                                THEN <<@[1] + one.calls[1].dx, @[2] + one.calls[1].dy>>
                                ELSE @,
                     !.fwd = @ /\ dx >= 0 /\ dy >= 0]
            /\ EngIssue(EngLast("update", TRUE, n, eng_tap_drag_active,
                                IF n <= 2 THEN one.calls ELSE two.calls,
                                IF n <= 2 THEN one.raised ELSE two.raised))
            /\ UNCHANGED <<engSettings, eng_max_fingers_in_gesture,
                           eng_first_touch_time, eng_last_tap_time,
                           eng_tap_drag_active, eng_now, gh_last_single_tap>>
TouchUpdate ==
    \E sequence \in EngEventSequences :
      LET n == Cardinality(DOMAIN eng_active_touches) IN
      IF sequence \notin DOMAIN eng_active_touches
        THEN /\ EngIssue(EngLast("update", FALSE, n, eng_tap_drag_active, <<>>, FALSE))
             /\ UNCHANGED <<engSettings, eng_active_touches,
                            eng_max_fingers_in_gesture, eng_any_finger_moved,
                            eng_first_touch_time, eng_last_tap_time,
                            eng_tap_drag_active, eng_pointer_accumulator,
                            eng_scroll_accumulator, eng_now, gh_sess,
                            gh_last_single_tap>>
        ELSE \E p \in EngPositions :
          LET touch == eng_active_touches[sequence]
              dx == p[1] - touch.last_x
              dy == p[2] - touch.last_y
              total_movement == Abs(p[1] - touch.start_x) + Abs(p[2] - touch.start_y)
              moved == total_movement > eng_tap_max_movement
              one == SingleFingerMotion(eng_pointer_accumulator, dx, dy)
              two == TwoFingerMotion(eng_scroll_accumulator, dx, dy)
          IN
            /\ eng_active_touches' =
                  [eng_active_touches EXCEPT ![sequence] =
                      [touch EXCEPT !.last_x = p[1], !.last_y = p[2],
                                    !.has_moved = IF moved THEN TRUE ELSE @]]
            /\ eng_any_finger_moved' = IF moved THEN TRUE ELSE eng_any_finger_moved
            /\ eng_pointer_accumulator' =
                  IF n = 1 THEN one.pointer ELSE eng_pointer_accumulator
            /\ eng_scroll_accumulator' =
                  IF n >= 2 THEN two.scroll ELSE eng_scroll_accumulator
            /\ gh_sess' =
                  [gh_sess EXCEPT
                     !.far = Max2(@, total_movement),
                     !.pointer = @ \/ (n = 1 /\ one.calls # <<>>),
                     !.sent = IF n = 1 /\ one.calls # <<>>
                                THEN <<@[1] + one.calls[1].dx, @[2] + one.calls[1].dy>>
                                ELSE @,
                     !.fwd = @ /\ dx >= 0 /\ dy >= 0]
            /\ EngIssue(EngLast("update", TRUE, n, eng_tap_drag_active,
                                IF n = 1 THEN one.calls ELSE two.calls,
                                IF n = 1 THEN one.raised ELSE two.raised))
            /\ UNCHANGED <<engSettings, eng_max_fingers_in_gesture,
                           eng_first_touch_time, eng_last_tap_time,
                           eng_tap_drag_active, eng_now, gh_last_single_tap>>

\* _detect_tap_gesture: the button of the tap, None when the gesture was
\* no tap
DetectTapGestureMutant(now) ==
    IF now - eng_first_touch_time >= eng_tap_max_duration THEN None
    ELSE IF eng_any_finger_moved THEN None
    ELSE IF eng_max_fingers_in_gesture = 1 THEN "left"
    ELSE IF eng_max_fingers_in_gesture = 2 THEN "right"
    ELSE IF eng_max_fingers_in_gesture >= 3 THEN "middle"
    ELSE None
DetectTapGesture(now) ==
    IF now - eng_first_touch_time > eng_tap_max_duration THEN None
    ELSE IF eng_any_finger_moved THEN None
    ELSE IF eng_max_fingers_in_gesture = 1 THEN "left"
    ELSE IF eng_max_fingers_in_gesture = 2 THEN "right"
    ELSE IF eng_max_fingers_in_gesture >= 3 THEN "middle"
    ELSE None

\* _on_touch_end, lines 234-244: what happens once all fingers are up: the
\* calls made
TouchEndCallsMutant(drag, tap_result) ==
    IF drag THEN <<>>
    ELSE IF tap_result # None THEN <<EngTap(tap_result)>> ELSE <<>>
TouchEndCalls(drag, tap_result) ==
    IF drag THEN <<EngClick("left", FALSE)>>
    ELSE IF tap_result # None THEN <<EngTap(tap_result)>> ELSE <<>>

\* _on_touch_end
TouchEndMutant ==
    \E sequence \in EngEventSequences :
      LET n == Cardinality(DOMAIN eng_active_touches) IN
      IF sequence \notin DOMAIN eng_active_touches
        THEN /\ EngIssue(EngLast("end", FALSE, n, eng_tap_drag_active,
                                IF n = 0
                                  THEN TouchEndCalls(eng_tap_drag_active,
                                                     DetectTapGesture(eng_now))
                                  ELSE <<>>,
                                FALSE))
             /\ UNCHANGED <<engSettings, eng_active_touches,
                            eng_max_fingers_in_gesture, eng_any_finger_moved,
                            eng_first_touch_time, eng_last_tap_time,
                            eng_tap_drag_active, eng_pointer_accumulator,
                            eng_scroll_accumulator, eng_now, gh_sess,
                            gh_last_single_tap>>
        ELSE
          LET touches == [s \in DOMAIN eng_active_touches \ {sequence} |->
                            eng_active_touches[s]]
              all_up == DOMAIN touches = {}
              tap_result == IF all_up /\ ~eng_tap_drag_active
                              THEN DetectTapGesture(eng_now) ELSE None
              calls == IF all_up
                         THEN TouchEndCalls(eng_tap_drag_active, tap_result)
                         ELSE <<>>
          IN
            /\ eng_active_touches' = touches
            /\ eng_tap_drag_active' = IF all_up THEN FALSE ELSE eng_tap_drag_active
            /\ eng_last_tap_time' =
                  IF tap_result = "left" THEN eng_now ELSE eng_last_tap_time
            /\ gh_last_single_tap' =
                  IF calls = <<EngTap("left")>> /\ gh_sess.peak = 1
                    THEN <<eng_now>> ELSE gh_last_single_tap
            /\ EngIssue(EngLast("end", TRUE, n, eng_tap_drag_active, calls, FALSE))
            /\ UNCHANGED <<engSettings, eng_max_fingers_in_gesture,
                           eng_any_finger_moved, eng_first_touch_time,
                           eng_pointer_accumulator, eng_scroll_accumulator,
                           eng_now, gh_sess>>
TouchEnd ==
    \E sequence \in EngEventSequences :
      LET n == Cardinality(DOMAIN eng_active_touches) IN
      IF sequence \notin DOMAIN eng_active_touches
        THEN /\ EngIssue(EngLast("end", FALSE, n, eng_tap_drag_active, <<>>, FALSE))
             /\ UNCHANGED <<engSettings, eng_active_touches,
                            eng_max_fingers_in_gesture, eng_any_finger_moved,
                            eng_first_touch_time, eng_last_tap_time,
                            eng_tap_drag_active, eng_pointer_accumulator,
                            eng_scroll_accumulator, eng_now, gh_sess,
                            gh_last_single_tap>>
        ELSE
          LET touches == [s \in DOMAIN eng_active_touches \ {sequence} |->
                            eng_active_touches[s]]
              all_up == DOMAIN touches = {}
              tap_result == IF all_up /\ ~eng_tap_drag_active
                              THEN DetectTapGesture(eng_now) ELSE None
              calls == IF all_up
                         THEN TouchEndCalls(eng_tap_drag_active, tap_result)
                         ELSE <<>>
          IN
            /\ eng_active_touches' = touches
            /\ eng_tap_drag_active' = IF all_up THEN FALSE ELSE eng_tap_drag_active
            /\ eng_last_tap_time' =
                  IF tap_result = "left" THEN eng_now ELSE eng_last_tap_time
            /\ gh_last_single_tap' =
                  IF calls = <<EngTap("left")>> /\ gh_sess.peak = 1
                    THEN <<eng_now>> ELSE gh_last_single_tap
            /\ EngIssue(EngLast("end", TRUE, n, eng_tap_drag_active, calls, FALSE))
            /\ UNCHANGED <<engSettings, eng_max_fingers_in_gesture,
                           eng_any_finger_moved, eng_first_touch_time,
                           eng_pointer_accumulator, eng_scroll_accumulator,
                           eng_now, gh_sess>>

\* _on_touch_cancel, lines 253-258: the calls made once no touch is left
TouchCancelCallsMutant(drag, tap_result) ==
    IF drag THEN <<EngClick("left", FALSE)>>
    ELSE IF tap_result # None THEN <<EngTap(tap_result)>> ELSE <<>>
TouchCancelCalls(drag, tap_result) ==
    IF drag THEN <<EngClick("left", FALSE)>> ELSE <<>>

\* _on_touch_cancel, with _reset_gesture_state
TouchCancel ==
    \E sequence \in EngEventSequences :
      LET n == Cardinality(DOMAIN eng_active_touches)
          tracked == sequence \in DOMAIN eng_active_touches
          touches == [s \in DOMAIN eng_active_touches \ {sequence} |->
                        eng_active_touches[s]]
          none_left == DOMAIN touches = {}
          calls == IF none_left
                     THEN TouchCancelCalls(eng_tap_drag_active,
                                           DetectTapGesture(eng_now))
                     ELSE <<>>
      IN
        /\ eng_active_touches' = touches
        /\ eng_tap_drag_active' = IF none_left THEN FALSE ELSE eng_tap_drag_active
        /\ eng_scroll_accumulator' =
              IF none_left THEN <<0, 0>> ELSE eng_scroll_accumulator
        /\ eng_pointer_accumulator' =
              IF none_left THEN <<0, 0>> ELSE eng_pointer_accumulator
        /\ eng_max_fingers_in_gesture' =
              IF none_left THEN 0 ELSE eng_max_fingers_in_gesture
        /\ eng_any_finger_moved' =
              IF none_left THEN FALSE ELSE eng_any_finger_moved
        /\ gh_sess' = [gh_sess EXCEPT !.cancelled = @ \/ tracked]
        /\ EngIssue(EngLast("cancel", tracked, n, eng_tap_drag_active, calls, FALSE))
        /\ UNCHANGED <<engSettings, eng_first_touch_time, eng_last_tap_time,
                       eng_now, gh_last_single_tap>>

\* cleanup(), with _reset_gesture_state
EngCleanup ==
    /\ eng_tap_drag_active' = FALSE
    /\ eng_active_touches' = [s \in {} |-> 0]
    /\ eng_scroll_accumulator' = <<0, 0>>
    /\ eng_pointer_accumulator' = <<0, 0>>
    /\ eng_max_fingers_in_gesture' = 0
    /\ eng_any_finger_moved' = FALSE
    /\ EngIssue(EngLast("cleanup", FALSE, Cardinality(DOMAIN eng_active_touches),
                        eng_tap_drag_active,
                        IF eng_tap_drag_active
                          THEN <<EngClick("left", FALSE)>> ELSE <<>>,
                        FALSE))
    /\ UNCHANGED <<engSettings, eng_first_touch_time, eng_last_tap_time,
                   eng_now, gh_sess, gh_last_single_tap>>

\* the three mouse buttons of the touchpad widget
MouseButtons == {"left", "middle", "right"}

\* a handler of a mouse button ran: it is recorded like the engine's
\* handlers; the tap-drag history is the engine's alone
MouseIssue(last) ==
    /\ gh_eng_events < MaxEngEvents
    /\ gh_eng_events' = gh_eng_events + 1
    /\ gh_eng_last' = last
    /\ UNCHANGED <<engSettings, eng_active_touches,
                   eng_max_fingers_in_gesture, eng_any_finger_moved,
                   eng_first_touch_time, eng_last_tap_time,
                   eng_tap_drag_active, eng_pointer_accumulator,
                   eng_scroll_accumulator, eng_now, gh_sess,
                   gh_last_single_tap, gh_drag_held, gh_drag_spent>>

\* _setup_mouse_button, on_pressed: self.touchpad.click(button_name, True)
on_pressed ==
    \E button_name \in MouseButtons :
        MouseIssue(EngLast("pressed", FALSE, Cardinality(DOMAIN eng_active_touches),
                           eng_tap_drag_active,
                           <<EngClick(button_name, TRUE)>>, FALSE))

\* on_released: self.touchpad.click(button_name, False)
on_released ==
    \E button_name \in MouseButtons :
        MouseIssue(EngLast("released", FALSE, Cardinality(DOMAIN eng_active_touches),
                           eng_tap_drag_active,
                           <<EngClick(button_name, FALSE)>>, FALSE))

\* on_cancel: self.touchpad.click(button_name, False)
on_cancelMutant ==
    MouseIssue(EngLast("cancel_click", FALSE, Cardinality(DOMAIN eng_active_touches),
                       eng_tap_drag_active, <<>>, FALSE))
on_cancel ==
    \E button_name \in MouseButtons :
        MouseIssue(EngLast("cancel_click", FALSE, Cardinality(DOMAIN eng_active_touches),
                           eng_tap_drag_active,
                           <<EngClick(button_name, FALSE)>>, FALSE))

NextEng ==
    /\ \/ EngTick
       \/ SettingsChanged
       \/ TouchBegin
       \/ TouchUpdate
       \/ TouchEnd
       \/ TouchCancel
       \/ EngCleanup
    /\ UNCHANGED <<kbVars, tpVars, modVars, thVars>>

\* ========================================================================
\* Specifications
\* ========================================================================

Init ==
    /\ KbInit
    /\ TpInit
    /\ ModInit
    /\ ThInit
    /\ EngInit

\* main.py constructs the TouchpadHandler without a settings manager: the
\* class defaults apply
EngDefaults ==
    /\ eng_pointer_sensitivity = DEFAULT_POINTER_SENSITIVITY
    /\ eng_scroll_sensitivity = DEFAULT_SCROLL_SENSITIVITY
    /\ eng_tap_drag_enabled = TRUE
    /\ eng_tap_drag_window = DEFAULT_TAP_DRAG_WINDOW

InitApp == Init /\ EngDefaults

\* The two devices are separate objects that share no state: a behaviour
\* exercises one of them, the other stays as constructed.
NextDev ==
    \/ TpInit /\ NextKb
    \/ KbInit /\ NextTp

SpecDev == InitApp /\ [][NextDev]_vars

\* the steps of the two worker threads.  Each is a thread of its own that
\* the operating system keeps scheduling: a step it can take, it takes.
KbWorker ==
    /\ TpInit
    /\ KbCreate \/ KbDelay \/ KbCheck \/ KbPop \/ KbSend \/ KbSleep \/ KbDestroy
    /\ UNCHANGED <<gh_kb_stop_at, tpVars, modVars, thVars, engVars>>
TpWorker ==
    /\ KbInit
    /\ TpCreate \/ TpDelay \/ TpCheck \/ TpPop \/ TpSend \/ TpSleep \/ TpDestroy
    /\ UNCHANGED <<gh_tp_stop_at, kbVars, modVars, thVars, engVars>>

\* (every worker step changes the worker's position, so the position is
\* the subscript)
SpecDevLive ==
    InitApp /\ [][NextDev]_vars /\ WF_kb_pc(KbWorker) /\ WF_tp_pc(TpWorker)
SpecMod == InitApp /\ [][NextMod]_vars
SpecEng == Init /\ [][NextEng]_vars
SpecTouch == InitApp /\ [][NextTouch]_vars

\* the touchpad widget: the touch area's handlers and the three mouse
\* buttons' handlers, all run by the UI thread
NextPad ==
    \/ NextEng
    \/ /\ on_pressed \/ on_released \/ on_cancel
       /\ UNCHANGED <<kbVars, tpVars, modVars, thVars>>

SpecPad == InitApp /\ [][NextPad]_vars

\* ========================================================================
\* Properties
\* ========================================================================

\* the last element of a non-empty sequence
Last(s) == s[Len(s)]

\* s is a prefix of t
IsPrefix(s, t) == Len(s) <= Len(t) /\ Take(t, Len(s)) = s

\* the `src` tags of a written log never decrease: the writes of one queued
\* event all come before the writes of the next
SrcInOrder(written) ==
    \A i, j \in 1..Len(written) : i <= j => written[i].src <= written[j].src

\* the entries of a written log that the queued event number i produced
WritesOf(written, i) ==
    LET F[n \in 0..Len(written)] ==
          IF n = 0 THEN <<>>
          ELSE IF written[n].src = i THEN Append(F[n - 1], written[n])
               ELSE F[n - 1]
    IN  F[Len(written)]

\* ---- C1 ----------------------------------------------------------------
\* C1: on both devices the events popped by the worker, followed by the
\* events still queued, are exactly the events appended, in append order:
\* the worker takes events in enqueue order and takes none twice; and what
\* it writes to the device is written in that same order, each write for an
\* event it has popped.
C1_FifoExactlyOnce ==
    /\ gh_kb_enq = gh_kb_taken \o kb_queue
    /\ gh_tp_enq = gh_tp_taken \o tp_queue
    /\ SrcInOrder(gh_kb_written)
    /\ SrcInOrder(gh_tp_written)
    /\ \A i \in 1..Len(gh_kb_written) :
          /\ gh_kb_written[i].src \in 1..Len(gh_kb_taken)
          /\ gh_kb_written[i].type = "EV_KEY" =>
                gh_kb_written[i].code = gh_kb_enq[gh_kb_written[i].src].key_code
    /\ \A i \in 1..Len(gh_tp_written) :
          /\ gh_tp_written[i].src \in 1..Len(gh_tp_taken)
          /\ gh_tp_written[i].code = "ABS_MT_TRACKING_ID" =>
                gh_tp_enq[gh_tp_written[i].src].event_type \in {"down", "up"}

\* two different events were popped and written while a third was queued
C1_Witness ==
    /\ Len(gh_kb_taken) >= 2
    /\ gh_kb_taken[1] # gh_kb_taken[2]
    /\ kb_queue # <<>>
    /\ \E i \in 1..Len(gh_kb_written) : gh_kb_written[i].src = 2

\* ---- C2 ----------------------------------------------------------------
\* C2: once device creation has failed on a device, its worker has ended by
\* returning (it did not crash and does not loop), running is False, nothing
\* was or is written to the device, and every producer call can still be
\* made and completes.
C2_RegistrationFailureDisables ==
    /\ gh_kb_regfail =>
          /\ kb_pc = "exited"
          /\ ~kb_running
          /\ gh_kb_written = <<>>
          /\ gh_kb_taken = <<>>
          /\ Len(gh_kb_enq) < MaxKbEnq => ENABLED KbSendKey
    /\ gh_tp_regfail =>
          /\ tp_pc = "exited"
          /\ ~tp_running
          /\ gh_tp_written = <<>>
          /\ gh_tp_taken = <<>>
          /\ gh_tp_calls < MaxTpCalls =>
                /\ ENABLED touch_down
                /\ ENABLED touch_move
                /\ ENABLED touch_up
                /\ ENABLED set_finger_count
                /\ ENABLED sync
                /\ ENABLED click
                /\ ENABLED tap

\* registration failed after the descriptor was opened, and two producer
\* calls were made afterwards
C2_Witness ==
    /\ gh_tp_regfail
    /\ tp_fd # None
    /\ gh_tp_calls = 2
    /\ Len(tp_queue) >= 2

\* ---- C3 ----------------------------------------------------------------
\* C3 (as claimed): a descriptor that was opened is closed exactly once:
\* it is never closed more often than it was opened, and when the worker
\* thread has ended, every descriptor that was opened has been closed.
C3_HandleReleasedExactlyOnce ==
    /\ gh_tp_closes <= gh_tp_opens
    /\ tp_pc = "exited" => gh_tp_closes = gh_tp_opens

\* ---- C4 ----------------------------------------------------------------
\* the call a step of the modifier tracker made
ModCallMade == Len(gh_mod_calls') = Len(gh_mod_calls) + 1

\* C4: a release(modifier, owner) step leaves the ownership map unchanged
\* when owner is not the holder of modifier (also when modifier is not
\* active), and otherwise removes exactly that modifier.  And after
\* press(shift, 1); release(shift, 2) shift is active, after a further
\* release(shift, 1) it is not.
C4_ReleaseStep ==
    (ModCallMade /\ Last(gh_mod_calls').op = "release") =>
        LET c == Last(gh_mod_calls')
            held == c.modifier \in DOMAIN active_modifiers
        IN  IF held /\ active_modifiers[c.modifier] = c.touch_id
              THEN /\ DOMAIN active_modifiers' =
                          DOMAIN active_modifiers \ {c.modifier}
                   /\ \A m \in DOMAIN active_modifiers' :
                          active_modifiers'[m] = active_modifiers[m]
              ELSE active_modifiers' = active_modifiers

ModCall(op, m, t) == [op |-> op, modifier |-> m, touch_id |-> t]

C4_Example ==
    /\ gh_mod_calls = <<ModCall("press", "shift", 1), ModCall("release", "shift", 2)>>
          => is_active("shift")
    /\ gh_mod_calls = <<ModCall("press", "shift", 1), ModCall("release", "shift", 2),
                        ModCall("release", "shift", 1)>>
          => ~is_active("shift")

C4_ReleaseOnlyByHolder == [][C4_ReleaseStep]_vars /\ []C4_Example

\* a release by a contact that is not the holder left the modifier active
C4_Witness ==
    /\ gh_mod_calls = <<ModCall("press", "shift", 1), ModCall("release", "shift", 2)>>
    /\ is_active("shift")

\* ---- C5 ----------------------------------------------------------------
\* the position of the most recent press of m in the calls, 0 when none
LastPress(calls, m) ==
    LET S == {i \in 1..Len(calls) : calls[i].op = "press" /\ calls[i].modifier = m}
    IN  IF S = {} THEN 0 ELSE CHOOSE i \in S : \A j \in S : j <= i

\* C5: after any sequence of calls, a modifier is active exactly when it was
\* pressed and no release by the owner of its most recent press came after
\* that press; and its holder is then the owner of the most recent press
\* (the last writer), whatever an earlier holder released since.
C5_LastWriterHolds ==
    \A m \in Modifiers :
        LET p == LastPress(gh_mod_calls, m) IN
        /\ is_active(m) <=>
              /\ p # 0
              /\ ~ \E j \in (p + 1)..Len(gh_mod_calls) :
                     /\ gh_mod_calls[j].op = "release"
                     /\ gh_mod_calls[j].modifier = m
                     /\ gh_mod_calls[j].touch_id = gh_mod_calls[p].touch_id
        /\ is_active(m) => active_modifiers[m] = gh_mod_calls[p].touch_id

\* a second contact took a held modifier over, and the first contact's
\* release did not free it
C5_Witness ==
    /\ gh_mod_calls = <<ModCall("press", "ctrl", 1), ModCall("press", "ctrl", 2),
                        ModCall("release", "ctrl", 1)>>
    /\ is_active("ctrl")
    /\ active_modifiers["ctrl"] = 2

\* ---- C6 ----------------------------------------------------------------
\* how many queued events the keyboard worker has finished processing
KbProcessed == IF kb_pc = "send" THEN Len(gh_kb_taken) - 1 ELSE Len(gh_kb_taken)

\* the key event and the sync that _send_key_event issues for event e
KbExpected(e, i) ==
    <<[type |-> "EV_KEY", code |-> e.key_code,
       value |-> IF e.action = "press" THEN 1 ELSE 0, src |-> i],
      [type |-> "EV_SYN", code |-> "SYN_REPORT", value |-> 0, src |-> i]>>

\* C6 (as claimed): every event the worker has processed produced exactly
\* one key event (1 for press, 0 for release) followed by exactly one sync,
\* and no two key events are written without a sync between them.
C6_KeyThenSyncAlways ==
    /\ \A i \in 1..KbProcessed :
          WritesOf(gh_kb_written, i) = KbExpected(gh_kb_taken[i], i)
    /\ \A i \in 1..(Len(gh_kb_written) - 1) :
          gh_kb_written[i].type = "EV_KEY" => gh_kb_written[i + 1].type = "EV_SYN"

\* C6 (amended): the worker handles one event at a time, issuing the key
\* event and then the sync for it before it pops the next: what is written
\* for a processed event is a prefix of <<key event, sync>>, in the order of
\* the events; all of it when no write has failed, and only a proper prefix
\* (nothing, or the key event without its sync) when a write failed.
C6_KeyThenSyncUnlessWriteFails ==
    /\ SrcInOrder(gh_kb_written)
    /\ \A i \in 1..KbProcessed :
          IsPrefix(WritesOf(gh_kb_written, i), KbExpected(gh_kb_taken[i], i))
    /\ Cardinality({i \in 1..KbProcessed :
                      WritesOf(gh_kb_written, i) # KbExpected(gh_kb_taken[i], i)})
          = gh_kb_fails
    /\ kb_pc = "send" => WritesOf(gh_kb_written, Len(gh_kb_taken)) = <<>>

\* a press and a release were processed, the first fully written and the
\* second with its sync lost
C6_Witness ==
    /\ KbProcessed = 2
    /\ gh_kb_taken[1].action = "press"
    /\ gh_kb_taken[2].action = "release"
    /\ Len(WritesOf(gh_kb_written, 1)) = 2
    /\ Len(WritesOf(gh_kb_written, 2)) = 1

\* ------------------------------------------------------------------------
\* The touchpad worker's translation of events
\* ------------------------------------------------------------------------

\* one entry of the written log, produced by queued event number k
TpW(type, code, value, k) ==
    [type |-> type, code |-> code, value |-> value, src |-> k]

\* the slot pointer and the active slots right after the k-th processed
\* event
TpSlotAfter(k) ==
    IF k = Len(gh_tp_done) THEN tp_current_slot
    ELSE gh_tp_done[k + 1].current_slot
TpActiveAfter(k) ==
    IF k = Len(gh_tp_done) THEN tp_active_slots
    ELSE gh_tp_done[k + 1].active_slots

\* the slot-select event the k-th processed event needs, if any
TpExpectedSelect(k) ==
    IF gh_tp_done[k].current_slot # gh_tp_done[k].event.slot
      THEN <<TpW("EV_ABS", "ABS_MT_SLOT", gh_tp_done[k].event.slot, k)>>
      ELSE <<>>

\* the k-th processed event was of this type and none of its writes raised
TpDone(k, event_type) ==
    /\ gh_tp_done[k].event.event_type = event_type
    /\ ~gh_tp_done[k].raised

\* what the k-th processed event wrote is `expected`; when one of its
\* writes raised, it is what comes before that write
TpWrote(k, expected) ==
    IF gh_tp_done[k].raised
      THEN /\ IsPrefix(WritesOf(gh_tp_written, k), expected)
           /\ WritesOf(gh_tp_written, k) # expected
      ELSE WritesOf(gh_tp_written, k) = expected

\* C14: for a touch_down event the worker writes a slot-select event
\* exactly if the event's slot differs from the slot pointer, then the
\* tracking id, the X and the Y position, in this order and nothing else,
\* and afterwards the slot pointer is the event's slot.  (A write that
\* raises ends the event there: what was written is what comes before it.)
C14_DownWrites ==
    \A k \in 1..Len(gh_tp_done) :
        gh_tp_done[k].event.event_type = "down" =>
            LET e == gh_tp_done[k].event IN
            /\ TpWrote(k, TpExpectedSelect(k) \o
                  <<TpW("EV_ABS", "ABS_MT_TRACKING_ID", e.tracking_id, k),
                    TpW("EV_ABS", "ABS_MT_POSITION_X", e.x, k),
                    TpW("EV_ABS", "ABS_MT_POSITION_Y", e.y, k)>>)
            /\ ~gh_tp_done[k].raised => TpSlotAfter(k) = e.slot

\* a down on slot 1 wrote the slot-select, a second down on slot 1 did not
C14_Witness ==
    /\ Len(gh_tp_done) = 2
    /\ TpDone(1, "down") /\ TpDone(2, "down")
    /\ gh_tp_done[1].event.slot = 1 /\ gh_tp_done[2].event.slot = 1
    /\ Len(WritesOf(gh_tp_written, 1)) = 4
    /\ Len(WritesOf(gh_tp_written, 2)) = 3

\* C15: for a touch_move event the worker writes a slot-select event only
\* if the event's slot differs from the slot pointer, then the X and the Y
\* position and nothing else: never a tracking id; the set of active slots
\* stays as it was.  (A write that raises ends the event there.)
C15_MoveWrites ==
    \A k \in 1..Len(gh_tp_done) :
        gh_tp_done[k].event.event_type = "move" =>
            LET e == gh_tp_done[k].event IN
            /\ TpWrote(k, TpExpectedSelect(k) \o
                  <<TpW("EV_ABS", "ABS_MT_POSITION_X", e.x, k),
                    TpW("EV_ABS", "ABS_MT_POSITION_Y", e.y, k)>>)
            /\ \A i \in 1..Len(WritesOf(gh_tp_written, k)) :
                  WritesOf(gh_tp_written, k)[i].code # "ABS_MT_TRACKING_ID"
            /\ TpActiveAfter(k) = gh_tp_done[k].active_slots

\* a move on slot 1 while the slot pointer was 0 and slot 0 was active
C15_Witness ==
    /\ Len(gh_tp_done) = 2
    /\ TpDone(1, "down") /\ TpDone(2, "move")
    /\ gh_tp_done[2].event.slot = 1
    /\ gh_tp_done[2].current_slot = 0
    /\ tp_active_slots = {0}
    /\ Len(WritesOf(gh_tp_written, 2)) = 3

\* C16: for a touch_up event the worker writes a slot-select event only if
\* the event's slot differs from the slot pointer, then tracking id -1 and
\* nothing else: no position; afterwards the slot is not active.  (A write
\* that raises ends the event there.)
C16_UpWrites ==
    \A k \in 1..Len(gh_tp_done) :
        gh_tp_done[k].event.event_type = "up" =>
            LET e == gh_tp_done[k].event IN
            /\ TpWrote(k, TpExpectedSelect(k) \o
                  <<TpW("EV_ABS", "ABS_MT_TRACKING_ID", -1, k)>>)
            /\ ~gh_tp_done[k].raised => e.slot \notin TpActiveAfter(k)

\* slot 1 went down and came up again
C16_Witness ==
    /\ Len(gh_tp_done) = 2
    /\ TpDone(1, "down") /\ TpDone(2, "up")
    /\ gh_tp_done[2].event.slot = 1
    /\ gh_tp_done[2].active_slots = {1}
    /\ tp_active_slots = {}
    /\ WritesOf(gh_tp_written, 2) = <<TpW("EV_ABS", "ABS_MT_TRACKING_ID", -1, 2)>>

\* the flags a finger count of n calls for: touch, single, double, triple,
\* quad
FlagsOf(n) ==
    <<IF n > 0 THEN 1 ELSE 0, IF n = 1 THEN 1 ELSE 0, IF n = 2 THEN 1 ELSE 0,
      IF n = 3 THEN 1 ELSE 0, IF n >= 4 THEN 1 ELSE 0>>
FlagCodes ==
    <<"BTN_TOUCH", "BTN_TOOL_FINGER", "BTN_TOOL_DOUBLETAP",
      "BTN_TOOL_TRIPLETAP", "BTN_TOOL_QUADTAP">>

\* no producer of either device has been called yet
NothingAppended == gh_kb_enq = <<>> /\ gh_tp_enq = <<>>

\* the translation of a finger-count event, for every count up to the
\* bound.  It is a function of the event alone, so it is evaluated in the
\* states where no event has been appended yet.
FingerCountStepsAsStated ==
    NothingAppended =>
    \A n \in 0..MaxFingerCount :
        /\ TpFingerCountSteps(FingerCountEvent(n)) =
              [i \in 1..5 |-> TpWrite("EV_KEY", FlagCodes[i], FlagsOf(n)[i])]
        /\ Cardinality({i \in 2..5 : FlagsOf(n)[i] = 1}) =
              IF n >= 1 THEN 1 ELSE 0

\* C17: for every finger count n from 0 up, set_finger_count(n) makes the
\* worker write the touch flag as 1 exactly if n > 0 and the single,
\* double, triple and quad tool flags with exactly one of them 1 for
\* n >= 1 (single for 1, double for 2, triple for 3, quad from 4 on) and
\* all of them 0 for n = 0.  (A write that raises ends the event there.)
C17_FingerCountFlags ==
    /\ FingerCountStepsAsStated
    /\ \A k \in 1..Len(gh_tp_done) :
          gh_tp_done[k].event.event_type = "finger_count" =>
              TpWrote(k, [i \in 1..5 |->
                            TpW("EV_KEY", FlagCodes[i],
                                FlagsOf(gh_tp_done[k].event.finger_count)[i], k)])

\* a finger count of 5 was written as touch and quad, after one of 2
C17_Witness ==
    /\ Len(gh_tp_done) = 2
    /\ TpDone(1, "finger_count") /\ TpDone(2, "finger_count")
    /\ gh_tp_done[1].event.finger_count = 2
    /\ gh_tp_done[2].event.finger_count = 5
    /\ WritesOf(gh_tp_written, 2)[5].value = 1
    /\ WritesOf(gh_tp_written, 1)[3].value = 1

\* the buttons a tap can name and their codes
TapButtons == {"left", "middle", "right"}
ButtonCodeOf(button) ==
    IF button = "left" THEN "BTN_LEFT"
    ELSE IF button = "middle" THEN "BTN_MIDDLE" ELSE "BTN_RIGHT"

\* press, sync, release, sync of a button
TapSequence(button) ==
    <<ButtonEvent(ButtonCodeOf(button), TRUE), SyncEvent,
      ButtonEvent(ButtonCodeOf(button), FALSE), SyncEvent>>

\* how many events had been appended when the c-th producer call returned
TpApiEnd(c) ==
    IF c = Len(gh_tp_api) THEN Len(gh_tp_enq) ELSE gh_tp_api[c + 1].at

\* C18: tap(button) with button left, middle or right appends exactly four
\* events: the button's press, a sync, the button's release, a sync, in
\* this order; and once the worker has processed the four without a write
\* raising, it has written the press, a sync, the release and a sync.
C18_TapAppendsPressSyncReleaseSync ==
    /\ NothingAppended => \A b \in TapButtons : TapEvents(b) = TapSequence(b)
    /\ \A c \in 1..Len(gh_tp_api) :
          (gh_tp_api[c].fn = "tap" /\ gh_tp_api[c].button \in TapButtons) =>
              LET at == gh_tp_api[c].at
                  code == ButtonCodeOf(gh_tp_api[c].button)
              IN
              /\ TpApiEnd(c) = at + 4
              /\ SubSeq(gh_tp_enq, at + 1, at + 4) =
                    TapSequence(gh_tp_api[c].button)
              /\ (/\ Len(gh_tp_done) >= at + 4
                  /\ \A k \in (at + 1)..(at + 4) : ~gh_tp_done[k].raised) =>
                    /\ WritesOf(gh_tp_written, at + 1) = <<TpW("EV_KEY", code, 1, at + 1)>>
                    /\ WritesOf(gh_tp_written, at + 2) = <<TpW("EV_SYN", "SYN_REPORT", 0, at + 2)>>
                    /\ WritesOf(gh_tp_written, at + 3) = <<TpW("EV_KEY", code, 0, at + 3)>>
                    /\ WritesOf(gh_tp_written, at + 4) = <<TpW("EV_SYN", "SYN_REPORT", 0, at + 4)>>

\* a sync and then a left tap were appended and the worker has written
\* all five events
C18_Witness ==
    /\ Len(gh_tp_api) = 2
    /\ gh_tp_api[1].fn = "sync"
    /\ gh_tp_api[2].fn = "tap" /\ gh_tp_api[2].button = "left"
    /\ Len(gh_tp_done) = 5
    /\ \A k \in 1..5 : ~gh_tp_done[k].raised
    /\ Len(gh_tp_written) = 5

\* ------------------------------------------------------------------------
\* Shutdown of the devices
\* ------------------------------------------------------------------------

\* cleanup() has been called on a device whose worker had created it
KbStopRequested == ~kb_running /\ ~gh_kb_regfail /\ kb_pc # "create"
TpStopRequested == ~tp_running /\ ~gh_tp_regfail /\ tp_pc # "create"

\* the worker has left its loop and released the device
KbReleased == kb_pc = "exited" /\ gh_kb_destroys = 1
TpReleased == tp_pc = "exited" /\ gh_tp_closes = 1 /\ tp_fd = None

LastValueOf(written, code) ==
    LET F[n \in 0..Len(written)] ==
          IF n = 0 THEN 0
          ELSE IF written[n].code = code THEN written[n].value
               ELSE F[n - 1]
    IN  F[Len(written)]

\* C20 (as stated): when the touchpad's descriptor is closed, the touch
\* flag and the four finger tool flags were last written as 0.
C20_FingerCountClearedAtShutdown ==
    gh_tp_closes > 0 =>
        \A i \in 1..5 : LastValueOf(gh_tp_written, FlagCodes[i]) = 0

\* ------------------------------------------------------------------------
\* Write failures and the queue lock
\* ------------------------------------------------------------------------

\* the keyboard events processed so far whose writes did not all succeed
KbFailedEvents ==
    {i \in 1..KbProcessed :
        WritesOf(gh_kb_written, i) # KbExpected(gh_kb_taken[i], i)}
\* the touchpad events processed so far one of whose writes raised
TpFailedEvents == {k \in 1..Len(gh_tp_done) : gh_tp_done[k].raised}

\* a failed write leaves the worker in its loop, the failed event is taken
\* once and never written again, and later events are written in full
WriteFailureContained ==
    /\ gh_kb_fails > 0 /\ kb_running => kb_pc \notin {"destroy", "exited"}
    /\ gh_tp_fails > 0 /\ tp_running => tp_pc \notin {"destroy", "exited"}
    /\ gh_kb_enq = gh_kb_taken \o kb_queue
    /\ gh_tp_enq = gh_tp_taken \o tp_queue
    /\ SrcInOrder(gh_kb_written) /\ SrcInOrder(gh_tp_written)
    /\ Cardinality(KbFailedEvents) = gh_kb_fails
    /\ Cardinality(TpFailedEvents) = gh_tp_fails
    /\ \A i \in KbFailedEvents :
          IsPrefix(WritesOf(gh_kb_written, i), KbExpected(gh_kb_taken[i], i))
    /\ \A k \in 1..Len(gh_tp_done) :
          LET all == TpNumWrites(TpSendSteps(gh_tp_done[k].event,
                                             gh_tp_done[k].current_slot))
              got == Len(WritesOf(gh_tp_written, k))
          IN  IF gh_tp_done[k].raised THEN got < all ELSE got = all

\* C21: a write that raises while the worker emits one event does not stop
\* the worker; the event is not retried or put back; and while the device
\* is running the events appended after it are still taken, in order, and
\* written: the queue is emptied again and again unless the device is
\* stopped.
C21_WriteFailureContained ==
    /\ []WriteFailureContained
    /\ []<>(kb_queue = <<>> \/ ~kb_running)
    /\ []<>(tp_queue = <<>> \/ ~tp_running)

\* the first key event lost its sync and the one appended after it was
\* written in full
C21_Witness ==
    /\ KbProcessed = 2
    /\ gh_kb_fails = 1
    /\ kb_running
    /\ Len(WritesOf(gh_kb_written, 1)) = 1
    /\ WritesOf(gh_kb_written, 2) = KbExpected(gh_kb_taken[2], 2)

\* the next step of each worker thread, whatever it is
KbThreadStep ==
    KbCreate \/ KbDelay \/ KbCheck \/ KbPop \/ KbSend \/ KbSleep \/ KbDestroy
TpThreadStep ==
    TpCreate \/ TpDelay \/ TpCheck \/ TpPop \/ TpSend \/ TpSleep \/ TpDestroy

\* the worker holds the queue lock exactly between entering the `with`
\* block and leaving it after the pop; a worker that has not ended can
\* always take its next step
LockDiscipline ==
    /\ kb_lock \in {"free", "worker"}
    /\ tp_lock \in {"free", "worker"}
    /\ kb_lock = "worker" <=> kb_pc = "locked"
    /\ tp_lock = "worker" <=> tp_pc = "locked"
    /\ kb_pc # "exited" => ENABLED KbThreadStep
    /\ tp_pc # "exited" => ENABLED TpThreadStep

\* a step that writes to the device or sleeps is taken with the lock free;
\* a step that appends to the queue finds the lock free, leaves it free and
\* does nothing but append; the step that stops a device does not touch the
\* lock
LockSteps ==
    /\ gh_kb_written' # gh_kb_written => kb_lock = "free" /\ kb_lock' = "free"
    /\ gh_tp_written' # gh_tp_written => tp_lock = "free" /\ tp_lock' = "free"
    /\ kb_pc \in {"delay", "sleep", "send", "destroy"} => kb_lock = "free"
    /\ tp_pc \in {"delay", "sleep", "send", "destroy"} => tp_lock = "free"
    /\ gh_kb_enq' # gh_kb_enq =>
          /\ kb_lock = "free" /\ kb_lock' = "free"
          /\ kb_pc' = kb_pc /\ gh_kb_written' = gh_kb_written
    /\ gh_tp_enq' # gh_tp_enq =>
          /\ tp_lock = "free" /\ tp_lock' = "free"
          /\ tp_pc' = tp_pc /\ gh_tp_written' = gh_tp_written
    /\ kb_running' # kb_running => kb_lock' = kb_lock
    /\ tp_running' # tp_running => tp_lock' = tp_lock

\* C22: the worker holds the queue lock only while it removes one event,
\* never while it writes to the device or sleeps; a producer holds it only
\* for its append; and no interleaving of producers, worker and cleanup
\* gets stuck: a worker that has not ended can always take its next step,
\* and the step it takes while it holds the lock releases it.
C22_LockHeldOnlyForQueueAccess ==
    /\ []LockDiscipline
    /\ [][LockSteps]_vars
    /\ [][(kb_lock = "worker" /\ kb_pc' # kb_pc => kb_lock' = "free")
          /\ (tp_lock = "worker" /\ tp_pc' # tp_pc => tp_lock' = "free")]_vars

\* the keyboard worker holds the lock with two events waiting, one of them
\* appended while the worker was writing
C22_Witness ==
    /\ kb_lock = "worker"
    /\ Len(kb_queue) = 2
    /\ gh_kb_written # <<>>
    /\ kb_running

\* ------------------------------------------------------------------------
\* Slots and tracking ids
\* ------------------------------------------------------------------------

\* absmax[ABS_MT_TRACKING_ID]
TRACKING_ID_MAX == 65535

\* the touch-downs processed so far whose contact is still down: no later
\* touch-up of the same slot has been processed
TpLiveDowns ==
    {k \in 1..Len(gh_tp_done) :
        /\ TpDone(k, "down")
        /\ \A m \in (k + 1)..Len(gh_tp_done) :
              ~(/\ gh_tp_done[m].event.event_type = "up"
                /\ gh_tp_done[m].event.slot = gh_tp_done[k].event.slot)}

\* C23 (as stated): each touch-down gets a slot that no contact still down
\* holds, so at most one live contact maps to a slot.
C23_AllocatedSlotsDistinct ==
    /\ \A k \in 1..Len(gh_tp_done) :
          TpDone(k, "down") =>
              gh_tp_done[k].event.slot \notin gh_tp_done[k].active_slots
    /\ \A j, k \in TpLiveDowns :
          j # k => gh_tp_done[j].event.slot # gh_tp_done[k].event.slot

\* the tracking id that follows id: one more, 1 after the largest
NextTrackingId(id) == IF id = TRACKING_ID_MAX THEN 1 ELSE id + 1

\* the touch-downs processed so far, in order
TpDowns == {k \in 1..Len(gh_tp_done) : gh_tp_done[k].event.event_type = "down"}

\* C24 (as stated): each touch-down carries the tracking id that follows the
\* one of the touch-down before it (wrapping from 65535 to 1), and no two
\* contacts that are down at the same time carry the same tracking id.
C24_TrackingIdsIncreaseAndDiffer ==
    /\ \A j, k \in TpDowns :
          (j < k /\ \A m \in TpDowns : ~(j < m /\ m < k)) =>
              gh_tp_done[k].event.tracking_id =
                  NextTrackingId(gh_tp_done[j].event.tracking_id)
    /\ \A j, k \in TpLiveDowns :
          j # k => gh_tp_done[j].event.tracking_id # gh_tp_done[k].event.tracking_id

\* ------------------------------------------------------------------------
\* The gesture engine
\* ------------------------------------------------------------------------

\* how often the last handler invocation made the call c
EngCount(c) ==
    Cardinality({i \in 1..Len(gh_eng_last.calls) : gh_eng_last.calls[i] = c})
EngTapped ==
    \E i \in 1..Len(gh_eng_last.calls) : gh_eng_last.calls[i].fn = "tap"
EngContacts == Cardinality(DOMAIN eng_active_touches)

\* C7: a tap-drag begins with one press of the left button and ends with
\* exactly one release of it, issued by the invocation (touch-end,
\* touch-cancel or cleanup) that brings the contact count to 0, whatever
\* events and settings changes come in between: the button is held exactly
\* while the engine is in tap-drag, tap-drag is never on without a contact,
\* a release is only issued from tap-drag, and an invocation that ends a
\* tap-drag issues no tap.
C7_TapDragPressReleasePaired ==
    /\ gh_drag_held = eng_tap_drag_active
    /\ eng_tap_drag_active => EngContacts > 0
    /\ EngCount(EngClick("left", TRUE)) =
          IF gh_eng_last.ev = "begin" /\ gh_eng_last.n_before = 0
             /\ eng_tap_drag_active
            THEN 1 ELSE 0
    /\ EngCount(EngClick("left", FALSE)) =
          IF gh_eng_last.drag_before /\ EngContacts = 0
             /\ gh_eng_last.ev \in {"end", "cancel", "cleanup"}
            THEN 1 ELSE 0
    /\ gh_eng_last.drag_before => ~EngTapped
    /\ ~gh_eng_last.drag_before => EngCount(EngClick("left", FALSE)) = 0

\* a tap, a second finger-down that entered tap-drag, a second contact, and
\* the touch-end that took the last contact away released the button
C7_Witness ==
    /\ gh_last_single_tap # <<>>
    /\ gh_eng_last.ev = "end"
    /\ gh_eng_last.drag_before
    /\ gh_sess.peak = 2
    /\ EngContacts = 0
    /\ gh_eng_last.calls = <<EngClick("left", FALSE)>>
    /\ ~gh_drag_held

\* the button of a tap with the given peak contact count
TapButtonOf(peak) ==
    IF peak = 1 THEN "left" ELSE IF peak = 2 THEN "right" ELSE "middle"

\* the last invocation was the touch-end that removed the last contact of a
\* session that was not in tap-drag
EngSessionEndedNormally ==
    /\ gh_eng_last.ev = "end"
    /\ gh_eng_last.tracked
    /\ gh_eng_last.n_before = 1
    /\ ~gh_eng_last.drag_before

\* C8: when touch-end removes the last contact and the engine is not in
\* tap-drag, it issues one tap if the session lasted at most 0.25 s and no
\* contact moved more than 15 units from where it came down, and nothing
\* otherwise; the tap is left for a peak contact count of 1, right for 2,
\* middle for 3 or more.
C8_TapClassification ==
    EngSessionEndedNormally =>
        gh_eng_last.calls =
            IF gh_eng_last.at - gh_sess.start <= 25 /\ gh_sess.far <= 1500
              THEN <<EngTap(TapButtonOf(gh_sess.peak))>>
              ELSE <<>>

\* three fingers came down and went up in time: a middle tap
C8_Witness ==
    /\ EngSessionEndedNormally
    /\ gh_sess.peak = 3
    /\ gh_eng_last.at - gh_sess.start = 25
    /\ gh_eng_last.calls = <<EngTap("middle")>>

\* the last invocation was the touch-cancel that removed the last contact
EngSessionCancelled ==
    /\ gh_eng_last.ev = "cancel"
    /\ gh_eng_last.tracked
    /\ gh_eng_last.n_before = 1

\* C9: the touch-cancel that removes the last contact issues no tap,
\* whatever the duration, the movement and the peak contact count were; it
\* releases the left button if the engine was in tap-drag, and leaves no
\* contact, zero accumulators, a peak count of 0 and the moved flag clear.
C9_CancelNeverTaps ==
    EngSessionCancelled =>
        /\ gh_eng_last.calls =
              IF gh_eng_last.drag_before
                THEN <<EngClick("left", FALSE)>> ELSE <<>>
        /\ ~eng_tap_drag_active
        /\ DOMAIN eng_active_touches = {}
        /\ eng_pointer_accumulator = <<0, 0>>
        /\ eng_scroll_accumulator = <<0, 0>>
        /\ eng_max_fingers_in_gesture = 0
        /\ ~eng_any_finger_moved

\* a single finger that came down, moved 15 units and was cancelled at
\* once: a touch-end in its place would have tapped
C9_Witness ==
    /\ EngSessionCancelled
    /\ ~gh_eng_last.drag_before
    /\ gh_sess.peak = 1
    /\ gh_sess.far = 1500
    /\ gh_eng_last.at = gh_sess.start
    /\ gh_eng_last.calls = <<>>

\* C10 (as stated): the first finger-down of a session enters tap-drag
\* exactly if tap-drag is enabled and a one-finger tap has completed less
\* than the tap-drag window before; without an earlier one-finger tap it
\* never does.
C10_TapDragOnlyAfterSingleTap ==
    (gh_eng_last.ev = "begin" /\ gh_eng_last.n_before = 0) =>
        (eng_tap_drag_active <=>
            /\ eng_tap_drag_enabled
            /\ gh_last_single_tap # <<>>
            /\ gh_eng_last.at - gh_last_single_tap[1] < eng_tap_drag_window)


\* C11 (as stated): a session of one contact that ends by touch-end within
\* 0.25 s, outside tap-drag, and whose contact never got more than 15 units
\* away from its start, issues exactly one left tap at its end and has
\* called for no pointer movement.
C11_SmallMoveIsTapOnly ==
    (EngSessionEndedNormally /\ gh_sess.peak = 1 /\ gh_sess.far <= 1500
       /\ gh_eng_last.at - gh_sess.start <= 25) =>
        /\ gh_eng_last.calls = <<EngTap("left")>>
        /\ ~gh_sess.pointer

\* the last invocation was an update of the only contact of a session
EngSingleFingerUpdate ==
    /\ gh_eng_last.ev = "update"
    /\ gh_eng_last.tracked
    /\ gh_eng_last.n_before = 1

\* C12 (as stated): once a contact got more than 15 units away from its
\* start the session stays marked as moved while it lasts, every further
\* single-finger update with a whole unit of accumulated movement issues a
\* pointer move (a call that completes), and the touch-end that ends the
\* session issues no tap.
C12_MovedSessionMovesPointerNoTap ==
    /\ (gh_sess.far > 1500 /\ EngContacts > 0) => eng_any_finger_moved
    /\ (gh_sess.far > 1500 /\ EngSingleFingerUpdate) =>
          /\ ~gh_eng_last.raised
          /\ \A i \in 1..Len(gh_eng_last.calls) :
                gh_eng_last.calls[i].fn = "move_pointer"
    /\ (gh_sess.far > 1500 /\ gh_eng_last.ev = "end" /\ gh_eng_last.tracked
          /\ EngContacts = 0) => ~EngTapped

\* the only contact of a session that has had one contact throughout
EngOnlyTouch == eng_active_touches[CHOOSE s \in DOMAIN eng_active_touches : TRUE]

\* C13 (as stated): in a session of one contact whose updates all moved in
\* the same (non-negative) direction, the integer pointer movement called
\* for so far, summed over the updates, is what a single update carrying
\* the whole displacement would call for: the truncated scaled displacement.
C13_SplitIndependent ==
    (EngContacts = 1 /\ gh_sess.peak = 1 /\ gh_sess.fwd) =>
        gh_sess.sent =
            <<TruncInt((EngOnlyTouch.last_x - EngOnlyTouch.start_x)
                         * eng_pointer_sensitivity),
              TruncInt((EngOnlyTouch.last_y - EngOnlyTouch.start_y)
                         * eng_pointer_sensitivity)>>



\* ------------------------------------------------------------------------
\* Events for contacts the engine does not track
\* ------------------------------------------------------------------------

\* the step handles a touch-update or touch-end of a contact that is not
\* among the active contacts
EngUntrackedStep ==
    /\ gh_eng_events' = gh_eng_events + 1
    /\ gh_eng_last'.ev \in {"update", "end"}
    /\ ~gh_eng_last'.tracked

\* C25: a touch-update or touch-end for a contact that is not tracked (never
\* begun, or already ended or cancelled) raises nothing, calls nothing on
\* the device and leaves the active contacts, both accumulators, the peak
\* finger count, the moved flag, the tap-drag flag and the last tap time
\* as they were.
C25_UntrackedIgnored ==
    [][EngUntrackedStep =>
          /\ gh_eng_last'.calls = <<>>
          /\ ~gh_eng_last'.raised
          /\ eng_active_touches' = eng_active_touches
          /\ eng_pointer_accumulator' = eng_pointer_accumulator
          /\ eng_scroll_accumulator' = eng_scroll_accumulator
          /\ eng_max_fingers_in_gesture' = eng_max_fingers_in_gesture
          /\ eng_any_finger_moved' = eng_any_finger_moved
          /\ eng_first_touch_time' = eng_first_touch_time
          /\ eng_tap_drag_active' = eng_tap_drag_active
          /\ eng_last_tap_time' = eng_last_tap_time]_vars

\* a touch-end for an untracked contact arrived while a tap-drag was on
C25_Witness ==
    /\ gh_eng_last.ev = "end"
    /\ ~gh_eng_last.tracked
    /\ gh_eng_last.drag_before
    /\ eng_tap_drag_active

\* ------------------------------------------------------------------------
\* A device whose creation failed
\* ------------------------------------------------------------------------

\* creation failed and the worker has returned: nothing will ever be taken
\* from the queue or written
KbInert == gh_kb_regfail /\ kb_pc = "exited"
TpInert == gh_tp_regfail /\ tp_pc = "exited"

\* C26 (as stated): once a device is inert, no call changes its state: the
\* queue, the running flag, the device handle and the write log stay as
\* they are.
C26_InertSendIsNoOp ==
    [][/\ KbInert => /\ kb_queue' = kb_queue
                     /\ kb_running' = kb_running
                     /\ kb_device' = kb_device
                     /\ gh_kb_written' = gh_kb_written
       /\ TpInert => /\ tp_queue' = tp_queue
                     /\ tp_running' = tp_running
                     /\ tp_fd' = tp_fd
                     /\ gh_tp_written' = gh_tp_written]_vars

\* ------------------------------------------------------------------------
\* Scrolling and the dispatch of touch-updates
\* ------------------------------------------------------------------------

\* the step handles a touch-update of a tracked contact
EngTrackedUpdateStep ==
    /\ gh_eng_events' = gh_eng_events + 1
    /\ gh_eng_last'.ev = "update"
    /\ gh_eng_last'.tracked

\* the contact the step's update is for: the others are as they were
EngUpdated(s) ==
    /\ s \in DOMAIN eng_active_touches
    /\ DOMAIN eng_active_touches' = DOMAIN eng_active_touches
    /\ \A t \in DOMAIN eng_active_touches \ {s} :
          eng_active_touches'[t] = eng_active_touches[t]

\* the scroll accumulator after adding the update's delta: scaled by the
\* scroll sensitivity, the vertical part with its sign turned
EngScrollSum(s) ==
    <<eng_scroll_accumulator[1]
        + (eng_active_touches'[s].last_x - eng_active_touches[s].last_x)
            * eng_scroll_sensitivity,
      eng_scroll_accumulator[2]
        - (eng_active_touches'[s].last_y - eng_active_touches[s].last_y)
            * eng_scroll_sensitivity>>

\* C27 (as stated): with two or more contacts live, an update adds its
\* delta to the scroll accumulator, scaled by the scroll sensitivity and
\* with the vertical sign turned; the truncated integer part is sent as one
\* scroll action (none when both parts are 0) and the accumulator keeps the
\* fractional remainder.
C27_ScrollSendsIntegerKeepsRemainder ==
    [][(EngTrackedUpdateStep /\ gh_eng_last'.n_before >= 2) =>
          \E s \in DOMAIN eng_active_touches :
             /\ EngUpdated(s)
             /\ LET sum == EngScrollSum(s)
                    scroll_x == TruncInt(sum[1])
                    scroll_y == TruncInt(sum[2])
                IN  /\ ~gh_eng_last'.raised
                    /\ gh_eng_last'.calls =
                          IF scroll_x # 0 \/ scroll_y # 0
                            THEN <<EngScroll(scroll_x, scroll_y)>> ELSE <<>>
                    /\ eng_scroll_accumulator' =
                          <<sum[1] - scroll_x * 10000,
                            sum[2] - scroll_y * 10000>>]_vars

\* C28: a touch-update of a tracked contact goes by the number of contacts
\* live at that moment: with exactly one, what it calls on the device can
\* only be move_pointer; with two or more, only scroll; it makes at most
\* one call, so never both, and never a click or a tap.
C28_UpdateDispatchByContactCount ==
    [][EngTrackedUpdateStep =>
          /\ gh_eng_last'.n_before >= 1
          /\ Len(gh_eng_last'.calls) <= 1
          /\ \A i \in 1..Len(gh_eng_last'.calls) :
                gh_eng_last'.calls[i].fn =
                    IF gh_eng_last'.n_before = 1 THEN "move_pointer" ELSE "scroll"
          /\ gh_eng_last'.n_before = 1 =>
                eng_scroll_accumulator' = eng_scroll_accumulator
          /\ gh_eng_last'.n_before >= 2 =>
                eng_pointer_accumulator' = eng_pointer_accumulator]_vars

\* an update with two contacts live called for a scroll after an update
\* with one contact live had called for a pointer move
C28_Witness ==
    /\ gh_eng_last.ev = "update"
    /\ gh_eng_last.tracked
    /\ gh_eng_last.n_before = 2
    /\ gh_eng_last.calls # <<>>
    /\ gh_sess.pointer

\* ------------------------------------------------------------------------
\* The start of a session
\* ------------------------------------------------------------------------

\* the step handles a touch-begin while no contact is live
EngSessionStartStep ==
    /\ gh_eng_events' = gh_eng_events + 1
    /\ gh_eng_last'.ev = "begin"
    /\ gh_eng_last'.n_before = 0

\* C29: a touch-begin while no contact is live sets both accumulators to
\* zero, the peak finger count to this one contact, the moved flag to
\* false and the session start time to now.  Whatever an earlier session
\* left behind, the gesture state after it is the new contact alone, not
\* moved, and the tap-drag flag decided by the settings, the time and the
\* last tap time; this flag is never left set between sessions.
C29_SessionStartResets ==
    /\ [](DOMAIN eng_active_touches = {} => ~eng_tap_drag_active)
    /\ [][EngSessionStartStep =>
             /\ eng_pointer_accumulator' = <<0, 0>>
             /\ eng_scroll_accumulator' = <<0, 0>>
             /\ eng_max_fingers_in_gesture' = 1
             /\ eng_any_finger_moved' = FALSE
             /\ eng_first_touch_time' = eng_now
             /\ eng_last_tap_time' = eng_last_tap_time
             /\ Cardinality(DOMAIN eng_active_touches') = 1
             /\ \A s \in DOMAIN eng_active_touches' :
                   /\ ~eng_active_touches'[s].has_moved
                   /\ eng_active_touches'[s].last_x = eng_active_touches'[s].start_x
                   /\ eng_active_touches'[s].last_y = eng_active_touches'[s].start_y
             /\ eng_tap_drag_active' =
                   (/\ eng_tap_drag_enabled
                    /\ eng_now - eng_last_tap_time < eng_tap_drag_window)]_vars

\* a session has started after one that left the moved flag set and a
\* remainder in an accumulator
C29_Witness ==
    /\ gh_eng_last.ev = "begin"
    /\ gh_eng_last.n_before = 0
    /\ gh_eng_last.moved_before
    /\ gh_eng_last.carry_before
    /\ eng_pointer_accumulator = <<0, 0>>
    /\ ~eng_any_finger_moved

\* ------------------------------------------------------------------------
\* The mouse buttons
\* ------------------------------------------------------------------------

\* the step runs a handler of a mouse button
MouseStep ==
    /\ gh_eng_events' = gh_eng_events + 1
    /\ gh_eng_last'.ev \in {"pressed", "released", "cancel_click"}

\* C30: a press of the left, middle or right mouse button calls click with
\* that button pressed, a release or a cancel calls click with it released,
\* and click appends exactly the button's press or release; the handlers
\* leave the active contacts, both accumulators, the peak finger count, the
\* moved flag, the session start time, the tap-drag flag and the last tap
\* time as they were, and what they call does not depend on them.
C30_MouseButtonsBypassEngine ==
    [][MouseStep =>
          /\ \E b \in MouseButtons :
                /\ gh_eng_last'.calls =
                      <<EngClick(b, gh_eng_last'.ev = "pressed")>>
                /\ ClickEvents(b, gh_eng_last'.ev = "pressed") =
                      <<ButtonEvent(ButtonCodeOf(b), gh_eng_last'.ev = "pressed")>>
          /\ ~gh_eng_last'.raised
          /\ eng_active_touches' = eng_active_touches
          /\ eng_pointer_accumulator' = eng_pointer_accumulator
          /\ eng_scroll_accumulator' = eng_scroll_accumulator
          /\ eng_max_fingers_in_gesture' = eng_max_fingers_in_gesture
          /\ eng_any_finger_moved' = eng_any_finger_moved
          /\ eng_first_touch_time' = eng_first_touch_time
          /\ eng_tap_drag_active' = eng_tap_drag_active
          /\ eng_last_tap_time' = eng_last_tap_time]_vars

\* a mouse button's press was cancelled while a tap-drag was on and its
\* contact had moved
C30_Witness ==
    /\ gh_eng_last.ev = "cancel_click"
    /\ gh_eng_last.calls = <<EngClick("middle", FALSE)>>
    /\ eng_tap_drag_active
    /\ eng_any_finger_moved
    /\ EngContacts = 1

\* ------------------------------------------------------------------------
\* The keyboard touch layer
\* ------------------------------------------------------------------------

\* a handler invocation was made, and this is what it was
ThHandled(ev) == gh_th_events > 0 /\ gh_th_last.ev = ev
ThEnded == gh_th_events > 0 /\ gh_th_last.ev \in {"release", "cancel"}

\* the key of the contact the last handler invocation was about is a
\* modifier key of the layout, or is none
ThOnNonModifier == gh_th_last.key # <<>> /\ gh_th_last.key[1].modifier = None

\* the send_key calls the last handler made for the key's own code, and
\* those it made for modifiers (the key's own call comes first on an end
\* and last on a press)
ThOwnCalls(action) ==
    SelectSeq(gh_th_last.calls,
              LAMBDA c : c = KeyEvent(get_uinput_key(gh_th_last.key[1]), action))
ThModifierCalls(action) ==
    {m \in DOMAIN modifier_keys :
        \E i \in 1..Len(gh_th_last.calls) :
            gh_th_last.calls[i] = KeyEvent(ModifierKeyCode(m), action)}

\* C31: a press of a key that is not a modifier enqueues a press of every
\* logically active modifier that is not physically pressed and then, last,
\* the key's own press; a release or cancel of a tracked contact enqueues a
\* release for exactly the modifiers that are physically pressed and no
\* longer logically active.
C31_ModifierDiffOnTransitions ==
    /\ (ThHandled("press") /\ ThOnNonModifier) =>
          LET calls == gh_th_last.calls
              missing == gh_th_last.active_before \ gh_th_last.pressed_before IN
          /\ Len(calls) = Cardinality(missing) + 1
          /\ calls[Len(calls)] = KeyEvent(get_uinput_key(gh_th_last.key[1]), "press")
          /\ ThModifierCalls("press") = missing
    /\ (ThEnded /\ gh_th_last.tracked) =>
          ThModifierCalls("release") = gh_th_last.pressed_before \ get_all_active

\* C32: a contact tracked on a key that is not a modifier has had its key
\* press enqueued; its release or cancel enqueues exactly one release of the
\* same key code and leaves the contact untracked; a release or cancel of a
\* contact that is not tracked enqueues nothing; so with no contact tracked,
\* the queue holds as many releases as presses of every key.
C32_EveryKeyPressGetsOneRelease ==
    /\ (ThHandled("press") /\ ThOnNonModifier) => Len(ThOwnCalls("press")) = 1
    /\ (ThEnded /\ gh_th_last.tracked /\ ThOnNonModifier) =>
          /\ Len(ThOwnCalls("release")) = 1
          /\ gh_th_last.sequence_key \notin DOMAIN th_active_touches
    /\ (ThEnded /\ ~gh_th_last.tracked) => gh_th_last.calls = <<>>
    /\ DOMAIN th_active_touches = {} =>
          \A k \in ThKeys :
              Len(SelectSeq(gh_kb_enq,
                      LAMBDA c : c = KeyEvent(get_uinput_key(k), "press")))
              = Len(SelectSeq(gh_kb_enq,
                      LAMBDA c : c = KeyEvent(get_uinput_key(k), "release")))

\* ------------------------------------------------------------------------
\* Sessions that lose a contact to a cancel
\* ------------------------------------------------------------------------

EngSessionStarted ==
    gh_eng_last.ev = "begin" /\ gh_eng_last.n_before = 0

\* C36 (as stated): once a one-finger tap has completed, at most one session
\* enters tap-drag before the next one-finger tap completes: a tap enables
\* one tap-drag session, not two.
C36_OneTapOneTapDrag ==
    gh_last_single_tap # <<>> => gh_drag_spent <= 1

\* C36 (amended): once a one-finger tap has completed, a session start
\* enters tap-drag exactly if tap-drag is enabled and less than the tap-drag
\* window has passed since the last completed one-finger tap, whether or not
\* a tap-drag session has ended since that tap.
C36_TapEnablesEveryStartInWindow ==
    (EngSessionStarted /\ gh_last_single_tap # <<>>) =>
        (eng_tap_drag_active <=>
            /\ eng_tap_drag_enabled
            /\ gh_eng_last.at - gh_last_single_tap[1] < eng_tap_drag_window)

\* a second session in a row entered tap-drag on the strength of one tap
C36_Witness ==
    /\ EngSessionStarted
    /\ gh_last_single_tap # <<>>
    /\ eng_tap_drag_active
    /\ gh_drag_spent = 2

\* ------------------------------------------------------------------------
\* Button transitions and their sync
\* ------------------------------------------------------------------------

\* C37: every click() call a handler invocation of the touchpad widget makes
\* (tap-drag start and end, the mouse-equivalent buttons) is followed by a
\* sync() call of the same invocation.
C37_ClickFollowedBySync ==
    \A i \in 1..Len(gh_eng_last.calls) :
        gh_eng_last.calls[i].fn = "click" =>
            \E j \in (i + 1)..Len(gh_eng_last.calls) :
                gh_eng_last.calls[j].fn = "sync"

\* ------------------------------------------------------------------------
\* Events queued when cleanup() is called
\* ------------------------------------------------------------------------

\* C38: when a device has been released after cleanup(), the worker has
\* taken from the queue, and so handed to the device, every event that had
\* been appended before cleanup() was called.
C38_QueuedEventsWrittenBeforeRelease ==
    /\ (KbReleased /\ gh_kb_stop_at >= 0) => Len(gh_kb_taken) >= gh_kb_stop_at
    /\ (TpReleased /\ gh_tp_stop_at >= 0) => Len(gh_tp_taken) >= gh_tp_stop_at

\* ------------------------------------------------------------------------
\* Remainders of the accumulators
\* ------------------------------------------------------------------------

\* the pointer accumulator after adding the update's delta, scaled by the
\* pointer sensitivity
EngPointerSum(s) ==
    <<eng_pointer_accumulator[1]
        + (eng_active_touches'[s].last_x - eng_active_touches[s].last_x)
            * eng_pointer_sensitivity,
      eng_pointer_accumulator[2]
        + (eng_active_touches'[s].last_y - eng_active_touches[s].last_y)
            * eng_pointer_sensitivity>>

\* the integer deltas the step's update delivered to the device: those of
\* its call, when it made one and the call did not raise
EngDelivered ==
    IF gh_eng_last'.calls # <<>> /\ ~gh_eng_last'.raised
      THEN <<gh_eng_last'.calls[1].dx, gh_eng_last'.calls[1].dy>>
      ELSE <<0, 0>>

\* what is delivered and what is kept add up to what was there and what
\* came in: nothing lost, nothing invented
EngConserved(before, after) ==
    \A k \in 1..2 : after[k] + EngDelivered[k] * 10000 = before[k]

\* the remainder is less than one unit on each axis
EngBelowOne(acc) == \A k \in 1..2 : Abs(acc[k]) < 10000

\* C39 (as stated): an update with one contact live leaves a pointer
\* remainder below 1 on each axis that, with the integer deltas delivered,
\* makes up the old remainder plus the scaled delta; an update with two or
\* more contacts live does the same with the scroll accumulator.  Summed
\* over a session: sent plus remainder is the sensitivity times the raw
\* movement.
C39_RemainderBelowOneNothingLost ==
    [][EngTrackedUpdateStep =>
          \E s \in DOMAIN eng_active_touches :
             /\ EngUpdated(s)
             /\ gh_eng_last'.n_before = 1 =>
                   /\ EngBelowOne(eng_pointer_accumulator')
                   /\ EngConserved(EngPointerSum(s), eng_pointer_accumulator')
             /\ gh_eng_last'.n_before >= 2 =>
                   /\ EngBelowOne(eng_scroll_accumulator')
                   /\ EngConserved(EngScrollSum(s), eng_scroll_accumulator')]_vars

\* ------------------------------------------------------------------------
\* The slot pointer
\* ------------------------------------------------------------------------

\* the slot the device was last told to select: the value of the last
\* ABS_MT_SLOT write that succeeded, 0 when there was none
TpSlotSelectedOnDevice == LastValueOf(gh_tp_written, "ABS_MT_SLOT")

\* C40: before and after every event it processes, the worker's
\* _current_slot is the slot of the last slot-select write that succeeded,
\* 0 when none has; also after events one of whose writes raised.
C40_SlotPointerIsLastSelectWritten ==
    tp_current_slot = TpSlotSelectedOnDevice

\* the last event processed was for another slot than the one selected, a
\* slot other than 0, and its slot-select write raised: the pointer stayed
C40_Witness ==
    /\ tp_pc = "check"
    /\ gh_tp_done # <<>>
    /\ LET d == gh_tp_done[Len(gh_tp_done)] IN
          /\ d.raised
          /\ d.event.event_type \in {"down", "move", "up"}
          /\ d.event.slot # d.current_slot
          /\ d.current_slot # 0
          /\ tp_current_slot = d.current_slot
          /\ \A i \in 1..Len(gh_tp_written) : gh_tp_written[i].src # Len(gh_tp_done)

=============================================================================
